---- MODULE Spec2Model ----
(***************************************************************************)
(* A model of localsmtp: the mailbox store (internal/store/sqlite.go), the *)
(* pagination helpers (package pagination), the notification hub (package  *)
(* sse) and the SMTP session with its message decomposer                   *)
(* (internal/smtpserver/server.go).                                        *)
(*                                                                         *)
(* Strings are sequences of one-character strings, so that ToLower,        *)
(* TrimSpace and concatenation are computed and not assumed.  Byte slices  *)
(* are sequences of numbers.  Message ids (uuid.NewString) are numbers     *)
(* drawn in no particular order; SQLite compares them as the ORDER BY      *)
(* tie-break.                                                              *)
(***************************************************************************)
EXTENDS Integers, Sequences, FiniteSets, TLC

VARIABLES
    db,        \* the SQLite database as the single connection sees it
    txSnap,    \* the database as of BEGIN, restored by ROLLBACK
    conn,      \* who holds the only pooled connection: "free" or a caller
    ins,       \* per writer: the InsertMessage call in progress
    lastWr,    \* history: how the last InsertMessage or DeleteMessage ended
    rd,        \* the GetMessage / GetAttachment call of the reader
    trav,      \* a page-by-page traversal of one mailbox
    hn,        \* the last page request: GetPaginationParams .. GetHasNext
    subs,      \* Hub.subs: address -> set of channels
    chans,     \* every channel made by Subscribe: buffer and closed flag
    mu,        \* Hub.mu: the callers holding the read lock
    bc,        \* per broadcaster: the Broadcast call in progress
    sess,      \* the session struct, and whether its MAIL was accepted
    authEnabled, \* backend.authEnabled
    ingested,  \* history: one entry per Data call
    tk,        \* a session token: its issue, what became of it, its parse
    ls,        \* the last ListMessages call: its arguments and its answer
    dl,        \* the Data call in progress, between its insert and broadcast
    snd,       \* the last send request of the web API and its answer
    pp,        \* the parts the mail reader last went through, and the bodies
    au,        \* the last AUTH command of the session and its outcome
    un,        \* a second call of an unsubscribe function
    strm,      \* the stream handler of a viewer, from its Subscribe to its return
    ss,        \* two SMTP connections served side by side
    committed  \* history: id -> the rows its InsertMessage call was given

vars == <<db, txSnap, conn, ins, lastWr, rd, trav, hn, subs, chans, mu, bc,
          sess, authEnabled, ingested, tk, ls, dl, snd, pp, au, un, strm, ss,
          committed>>

storeVars == <<db, txSnap, conn, ins, lastWr, rd, committed>>
pageVars == <<trav, hn>>
hubVars == <<subs, chans, mu, bc>>
smtpVars == <<sess, authEnabled, ingested>>
tokenVars == <<tk>>
listVars == <<ls>>
restVars == <<pp, au, un, strm, ss>>
deliverVars == <<dl, snd, restVars>>

(***************************************************************************)
(* Bounds of the model.                                                    *)
(***************************************************************************)
MaxMsgs == 2        \* message ids are 1..MaxMsgs
MaxSeq == 2         \* InsertMessage is not called once a row id reached it
MaxBox == 3         \* messages of the mailboxes that are paged through
MaxPageSize == 2    \* page sizes of a traversal are 1..MaxPageSize
MaxSubs == 2        \* Subscribe calls
MaxData == 1        \* DATA commands
MaxRcpts == 2       \* accepted RCPT commands of a transaction
MaxEmails == 2      \* addresses of a token
TicksPerSecond == 2 \* clock readings within a second
MaxAge == 2         \* Manager.maxAge, in seconds
MaxTransactions == 2 \* DATA commands on one connection
MaxConnRcpts == 1   \* accepted RCPT commands of each of them
MaxDeliveries == 1  \* Data calls followed from the insert to the broadcast
MaxSends == 1       \* send requests of the web API
MaxParts == 3       \* parts of a message the mail reader goes through
MaxStreamed == 3    \* payloads broadcast to the viewer of a stream
MaxStored == 2      \* messages stored by two connections side by side
MaxListed == 2      \* messages in the store when a mailbox is listed

(***************************************************************************)
(* Strings.                                                                *)
(***************************************************************************)
aX == <<"a">>
bX == <<"b">>
cX == <<"c">>
Addrs == {aX, bX, cX}

Range(s) == {s[i] : i \in DOMAIN s}

\* strings.ToLower and strings.TrimSpace.
Lower(ch) ==
    IF ch = "A" THEN "a" ELSE IF ch = "B" THEN "b" ELSE IF ch = "C" THEN "c"
    ELSE ch
ToLower(str) == [i \in DOMAIN str |-> Lower(str[i])]

RECURSIVE TrimLeft(_)
TrimLeft(str) ==
    IF str # <<>> /\ Head(str) = " " THEN TrimLeft(Tail(str)) ELSE str
RECURSIVE TrimRight(_)
TrimRight(str) ==
    IF str # <<>> /\ str[Len(str)] = " "
    THEN TrimRight(SubSeq(str, 1, Len(str) - 1)) ELSE str
TrimSpace(str) == TrimRight(TrimLeft(str))

(***************************************************************************)
(* The store: four tables behind one connection.                           *)
(***************************************************************************)
MsgIds == 1..MaxMsgs

EmptyDb == [messages |-> {}, recipients |-> {}, attachments |-> {},
            seqR |-> 0, seqA |-> 0]

Writers == {"w1", "w2"}

\* INSERT INTO messages: the primary key rejects a second row of an id.
InsertMessageRow(d, m) == [d EXCEPT !.messages = @ \cup {m}]

\* INSERT INTO recipients: the row id comes from the AUTOINCREMENT sequence.
InsertRecipientRow(d, mid, r) ==
    [d EXCEPT !.seqR = @ + 1,
              !.recipients = @ \cup {[rid |-> d.seqR + 1, mid |-> mid,
                                      email |-> r.email, type |-> r.type]}]

\* INSERT INTO attachments.
InsertAttachmentRow(d, mid, a) ==
    [d EXCEPT !.seqA = @ + 1,
              !.attachments = @ \cup {[aid |-> d.seqA + 1, mid |-> mid,
                                       filename |-> a.filename,
                                       contentType |-> a.contentType,
                                       data |-> a.data, size |-> a.size]}]

\* tx.Rollback: the database is again the one BEGIN saw.
RollbackNoop(d, snap) == d
Rollback(d, snap) == snap

NoMsg == [id |-> 0]

IdleIns == [pc |-> "idle", msg |-> NoMsg, rcpts |-> <<>>, atts |-> <<>>,
            i |-> 0, before |-> EmptyDb]

\* lastWr: how the last call ended, at which statement it failed, what it
\* was given and the database before it began and after it returned.
NoIns == [result |-> "none", at |-> "none", msg |-> NoMsg, rcpts |-> <<>>,
          atts |-> <<>>, before |-> EmptyDb, after |-> EmptyDb]

Returned(res, at, c, after) ==
    [result |-> res, at |-> at, msg |-> c.msg, rcpts |-> c.rcpts,
     atts |-> c.atts, before |-> c.before, after |-> after]

\* What the callers of the store model pass to InsertMessage.
Att1 == [filename |-> <<"f">>, contentType |-> <<"p">>, data |-> <<1, 2>>,
         size |-> 2]
Att2 == [filename |-> <<"g">>, contentType |-> <<"p">>, data |-> <<3>>,
         size |-> 1]
Rcpt(e, t) == [email |-> e, type |-> t]
Cands == {[from |-> aX, rcpts |-> <<Rcpt(bX, "to")>>, atts |-> <<>>],
          [from |-> aX, rcpts |-> <<Rcpt(bX, "to"), Rcpt(cX, "cc")>>,
           atts |-> <<Att1, Att2>>],
          [from |-> bX, rcpts |-> <<>>, atts |-> <<Att1>>]}
CandMsg(id, from, at) ==
    [id |-> id, from |-> from, subject |-> <<"s">>, text |-> <<"t">>,
     html |-> <<>>, raw |-> <<7>>, rawSize |-> 1, createdAt |-> at]

RECURSIVE InsertRecipients(_, _, _)
InsertRecipients(d, mid, rs) ==
    IF rs = <<>> THEN d
    ELSE InsertRecipients(InsertRecipientRow(d, mid, Head(rs)), mid, Tail(rs))

RECURSIVE InsertAttachments(_, _, _)
InsertAttachments(d, mid, as) ==
    IF as = <<>> THEN d
    ELSE InsertAttachments(InsertAttachmentRow(d, mid, Head(as)), mid, Tail(as))

\* InsertMessage when every statement and the commit succeed.
InsertAll(d, m, rs, as) ==
    InsertAttachments(InsertRecipients(InsertMessageRow(d, m), m.id, rs), m.id, as)

HasId(d, id) == \E m \in d.messages : m.id = id

\* The statement after the message row, the recipient rows, the attachments.
NextPc(rs, as, pc, i) ==
    IF pc \in {"msg"} /\ rs # <<>> THEN [pc |-> "rcpt", i |-> 1]
    ELSE IF pc \in {"msg"} /\ as # <<>> THEN [pc |-> "att", i |-> 1]
    ELSE IF pc = "rcpt" /\ i < Len(rs) THEN [pc |-> "rcpt", i |-> i + 1]
    ELSE IF pc = "rcpt" /\ as # <<>> THEN [pc |-> "att", i |-> 1]
    ELSE IF pc = "att" /\ i < Len(as) THEN [pc |-> "att", i |-> i + 1]
    ELSE [pc |-> "commit", i |-> 0]

\* The caller of the last call that returned has taken its result: the
\* history variables hold one result at a time.
Taken == rd.pc # "done" /\ lastWr.result = "none"

Advance(c) ==
    LET n == NextPc(c.rcpts, c.atts, c.pc, c.i)
    IN [c EXCEPT !.pc = n.pc, !.i = n.i]

\* A statement of the transaction failed, or the commit did: the deferred
\* tx.Rollback undoes the transaction, the connection goes back to the pool
\* and InsertMessage returns the error.
InsAbort(w) ==
    /\ db' = Rollback(db, txSnap)
    /\ txSnap' = EmptyDb
    /\ conn' = "free"
    /\ lastWr' = Returned("err", ins[w].pc, ins[w], db')
    /\ ins' = [ins EXCEPT ![w] = IdleIns]
    /\ UNCHANGED committed

\* InsertMessage: BeginTx waits for the only connection (SetMaxOpenConns(1)).
InsBegin(w) ==
    /\ ins[w].pc = "idle"
    /\ conn = "free"
    /\ Taken
    /\ \E id \in MsgIds, c \in Cands, ok \in BOOLEAN :
         /\ db.seqR + Len(c.rcpts) <= MaxSeq
         /\ db.seqA + Len(c.atts) <= MaxSeq
         /\ IF ok
           THEN /\ conn' = w
                /\ txSnap' = db
                /\ ins' = [ins EXCEPT ![w] =
                              [pc |-> "msg", msg |-> CandMsg(id, c.from, 1),
                               rcpts |-> c.rcpts, atts |-> c.atts, i |-> 0,
                               before |-> db]]
                /\ UNCHANGED <<db, lastWr, committed>>
           ELSE /\ lastWr' = Returned("err", "begin",
                                      [msg |-> CandMsg(id, c.from, 1),
                                       rcpts |-> c.rcpts, atts |-> c.atts,
                                       before |-> db], db)
                /\ UNCHANGED <<db, txSnap, conn, ins, committed>>
    /\ UNCHANGED <<rd, pageVars, hubVars, smtpVars, tokenVars, listVars,
                   deliverVars>>

InsMsg(w) ==
    /\ ins[w].pc = "msg"
    /\ \E ok \in BOOLEAN :
         IF ok /\ ~HasId(db, ins[w].msg.id)
         THEN /\ db' = InsertMessageRow(db, ins[w].msg)
              /\ ins' = [ins EXCEPT ![w] = Advance(ins[w])]
              /\ UNCHANGED <<txSnap, conn, lastWr, committed>>
         ELSE InsAbort(w)
    /\ UNCHANGED <<rd, pageVars, hubVars, smtpVars, tokenVars, listVars,
                   deliverVars>>

InsRcpt(w) ==
    /\ ins[w].pc = "rcpt"
    /\ \E ok \in BOOLEAN :
         IF ok
         THEN /\ db' = InsertRecipientRow(db, ins[w].msg.id, ins[w].rcpts[ins[w].i])
              /\ ins' = [ins EXCEPT ![w] = Advance(ins[w])]
              /\ UNCHANGED <<txSnap, conn, lastWr, committed>>
         ELSE InsAbort(w)
    /\ UNCHANGED <<rd, pageVars, hubVars, smtpVars, tokenVars, listVars,
                   deliverVars>>

InsAtt(w) ==
    /\ ins[w].pc = "att"
    /\ \E ok \in BOOLEAN :
         IF ok
         THEN /\ db' = InsertAttachmentRow(db, ins[w].msg.id, ins[w].atts[ins[w].i])
              /\ ins' = [ins EXCEPT ![w] = Advance(ins[w])]
              /\ UNCHANGED <<txSnap, conn, lastWr, committed>>
         ELSE InsAbort(w)
    /\ UNCHANGED <<rd, pageVars, hubVars, smtpVars, tokenVars, listVars,
                   deliverVars>>

InsCommit(w) ==
    /\ ins[w].pc = "commit"
    /\ \E ok \in BOOLEAN :
         IF ok
         THEN /\ conn' = "free"
              /\ txSnap' = EmptyDb
              /\ lastWr' = Returned("ok", "none", ins[w], db)
              /\ committed' = [id \in DOMAIN committed \cup {ins[w].msg.id} |->
                                 IF id = ins[w].msg.id
                                 THEN [msg |-> ins[w].msg, rcpts |-> ins[w].rcpts,
                                       atts |-> ins[w].atts]
                                 ELSE committed[id]]
              /\ ins' = [ins EXCEPT ![w] = IdleIns]
              /\ UNCHANGED db
         ELSE InsAbort(w)
    /\ UNCHANGED <<rd, pageVars, hubVars, smtpVars, tokenVars, listVars,
                   deliverVars>>

\* The other of the two callers.
OtherWriter(w) == CHOOSE o \in Writers : o # w

\* db.SetMaxOpenConns(1): BeginTx gets the connection of the pool only while
\* no transaction holds it.
ConnAlwaysFree == TRUE
ConnIsFree == conn = "free"

\* A goroutine calls InsertMessage for a message of its own (the ids are
\* fresh UUIDs) while the other caller may be inside its call.
InsCall(w) ==
    /\ ins[w].pc = "idle"
    /\ \E id \in MsgIds, c \in Cands :
         /\ ~HasId(db, id)
         /\ ins[OtherWriter(w)].msg.id # id
         /\ db.seqR + Len(ins[OtherWriter(w)].rcpts) + Len(c.rcpts) <= MaxSeq
         /\ db.seqA + Len(ins[OtherWriter(w)].atts) + Len(c.atts) <= MaxSeq
         /\ ins' = [ins EXCEPT ![w] =
                       [pc |-> "wait", msg |-> CandMsg(id, c.from, 1),
                        rcpts |-> c.rcpts, atts |-> c.atts, i |-> 0,
                        before |-> db]]
    /\ UNCHANGED <<db, txSnap, conn, lastWr, rd, committed>>
    /\ UNCHANGED <<pageVars, hubVars, smtpVars, tokenVars, listVars,
                   deliverVars>>

\* s.db.BeginTx of a waiting call: it is handed the connection once it is
\* free, or gives up with an error.
InsBeginTx(w) ==
    /\ ins[w].pc = "wait"
    /\ ConnIsFree
    /\ Taken
    /\ \E ok \in BOOLEAN :
         IF ok
         THEN /\ conn' = w
              /\ txSnap' = db
              /\ ins' = [ins EXCEPT ![w].pc = "msg", ![w].before = db]
              /\ UNCHANGED <<db, lastWr, committed>>
         ELSE /\ lastWr' = Returned("err", "begin", ins[w], db)
              /\ ins' = [ins EXCEPT ![w] = IdleIns]
              /\ UNCHANGED <<db, txSnap, conn, committed>>
    /\ UNCHANGED <<rd, pageVars, hubVars, smtpVars, tokenVars, listVars,
                   deliverVars>>

(***************************************************************************)
(* Reads.  Every query borrows the only connection for its own duration,   *)
(* so it runs only while no transaction holds it.                          *)
(***************************************************************************)
\* from_email = ? OR EXISTS (SELECT 1 FROM recipients r WHERE r.message_id =
\* messages.id AND r.email = ?)
VisibleRecipientOnly(d, m, email) ==
    \E r \in d.recipients : r.mid = m.id /\ r.email = email
Visible(d, m, email) ==
    \/ m.from = email
    \/ \E r \in d.recipients : r.mid = m.id /\ r.email = email

RECURSIVE SortByRid(_)
SortByRid(S) ==
    IF S = {} THEN <<>>
    ELSE LET r == CHOOSE x \in S : \A y \in S : x.rid <= y.rid
         IN <<r>> \o SortByRid(S \ {r})

RECURSIVE SortByAid(_)
SortByAid(S) ==
    IF S = {} THEN <<>>
    ELSE LET a == CHOOSE x \in S : \A y \in S : x.aid <= y.aid
         IN <<a>> \o SortByAid(S \ {a})

\* SELECT email, type FROM recipients WHERE message_id = ? ORDER BY id
getRecipients(d, id) ==
    LET rows == SortByRid({r \in d.recipients : r.mid = id})
    IN [i \in DOMAIN rows |-> Rcpt(rows[i].email, rows[i].type)]

\* SELECT id, message_id, filename, content_type, size FROM attachments
\* WHERE message_id = ? ORDER BY id: the data column is not read.
getAttachments(d, id) ==
    LET rows == SortByAid({a \in d.attachments : a.mid = id})
    IN [i \in DOMAIN rows |->
           [aid |-> rows[i].aid, mid |-> rows[i].mid,
            filename |-> rows[i].filename,
            contentType |-> rows[i].contentType, data |-> <<>>,
            size |-> rows[i].size]]

\* The rows the first query of GetMessage scans: none gives sql.ErrNoRows.
GetMessageRows(d, email, id) ==
    {m \in d.messages : m.id = id /\ Visible(d, m, email)}

\* The rows the query of GetAttachment scans.
GetAttachmentRows(d, email, aid) ==
    {a \in d.attachments :
        a.aid = aid /\ \E m \in d.messages : m.id = a.mid /\ Visible(d, m, email)}

\* DELETE FROM messages WHERE id = ? AND (visible); recipients and
\* attachments go with their message (ON DELETE CASCADE, foreign_keys = ON).
\* ON DELETE CASCADE, in force because Open turned foreign keys on for the
\* one connection of the pool.
CascadeOff(d, gone) == d
Cascade(d, gone) ==
    [d EXCEPT !.recipients = {r \in @ : r.mid \notin gone},
              !.attachments = {a \in @ : a.mid \notin gone}]

DeleteRows(d, email, id) ==
    LET gone == {m.id : m \in GetMessageRows(d, email, id)}
    IN Cascade([d EXCEPT !.messages = {m \in @ : m.id \notin gone}], gone)

IdleRd == [op |-> "none", pc |-> "idle", viewer |-> <<>>, id |-> 0,
           found |-> FALSE, msg |-> {}, rcpts |-> <<>>, atts |-> <<>>,
           att |-> {}, exists |-> FALSE, entitled |-> FALSE,
           given |-> [rcpts |-> <<>>, atts |-> <<>>]]

\* What the viewer is entitled to by the calls that stored the messages: the
\* viewer is the sender or a recipient InsertMessage was given.
Entitled(c, viewer) ==
    \/ c.msg.from = viewer
    \/ \E i \in DOMAIN c.rcpts : c.rcpts[i].email = viewer

\* Ids a reader may ask for: those of messages and one that never exists.
AskIds == 1..(MaxMsgs + 1)
AskAids == 1..(MaxSeq + 1)

\* GetMessage, first query: the message row, or sql.ErrNoRows.
RdGetMessage ==
    /\ rd.pc = "idle"
    /\ Taken
    /\ conn = "free"
    /\ \E viewer \in Addrs, id \in AskIds :
         LET rows == GetMessageRows(db, viewer, id)
         IN rd' = [IdleRd EXCEPT !.op = "msg", !.viewer = viewer, !.id = id,
                                 !.found = (rows # {}), !.msg = rows,
                                 !.exists = (id \in DOMAIN committed),
                                 !.entitled = (id \in DOMAIN committed /\
                                               Entitled(committed[id], viewer)),
                                 !.given =
                                     IF rows # {} /\ id \in DOMAIN committed
                                     THEN [rcpts |-> committed[id].rcpts,
                                           atts |-> committed[id].atts]
                                     ELSE @,
                                 !.pc = IF rows = {} THEN "done" ELSE "rcpts"]
    /\ UNCHANGED <<db, txSnap, conn, ins, lastWr, committed>>
    /\ UNCHANGED <<pageVars, hubVars, smtpVars, tokenVars, listVars,
                   deliverVars>>

\* GetMessage, second query: getRecipients.
RdRecipients ==
    /\ rd.pc = "rcpts"
    /\ conn = "free"
    /\ rd' = [rd EXCEPT !.rcpts = getRecipients(db, rd.id), !.pc = "atts"]
    /\ UNCHANGED <<db, txSnap, conn, ins, lastWr, committed>>
    /\ UNCHANGED <<pageVars, hubVars, smtpVars, tokenVars, listVars,
                   deliverVars>>

\* GetMessage, third query: getAttachments, and the return.
RdAttachments ==
    /\ rd.pc = "atts"
    /\ conn = "free"
    /\ rd' = [rd EXCEPT !.atts = getAttachments(db, rd.id), !.pc = "done"]
    /\ UNCHANGED <<db, txSnap, conn, ins, lastWr, committed>>
    /\ UNCHANGED <<pageVars, hubVars, smtpVars, tokenVars, listVars,
                   deliverVars>>

\* GetAttachment: one query.
RdGetAttachment ==
    /\ rd.pc = "idle"
    /\ Taken
    /\ conn = "free"
    /\ \E viewer \in Addrs, aid \in AskAids :
         LET rows == GetAttachmentRows(db, viewer, aid)
         IN rd' = [IdleRd EXCEPT !.op = "att", !.viewer = viewer, !.id = aid,
                                 !.found = (rows # {}), !.att = rows,
                                 !.exists = (\E a \in db.attachments : a.aid = aid),
                                 !.entitled =
                                     (\E a \in db.attachments :
                                         /\ a.aid = aid
                                         /\ a.mid \in DOMAIN committed
                                         /\ Entitled(committed[a.mid], viewer)),
                                 !.pc = "done"]
    /\ UNCHANGED <<db, txSnap, conn, ins, lastWr, committed>>
    /\ UNCHANGED <<pageVars, hubVars, smtpVars, tokenVars, listVars,
                   deliverVars>>

\* The caller of GetMessage or GetAttachment takes the result.
RdReturn ==
    /\ rd.pc = "done"
    /\ rd' = IdleRd
    /\ UNCHANGED <<db, txSnap, conn, ins, lastWr, committed>>
    /\ UNCHANGED <<pageVars, hubVars, smtpVars, tokenVars, listVars,
                   deliverVars>>

\* The caller of InsertMessage or DeleteMessage takes the result.
WrReturn ==
    /\ lastWr.result # "none"
    /\ lastWr' = NoIns
    /\ UNCHANGED <<db, txSnap, conn, ins, rd, committed>>
    /\ UNCHANGED <<pageVars, hubVars, smtpVars, tokenVars, listVars,
                   deliverVars>>

\* DeleteMessage: one statement; true when a row was deleted.
DeleteMessage ==
    /\ conn = "free"
    /\ Taken
    /\ \E viewer \in Addrs, id \in AskIds :
         LET rows == GetMessageRows(db, viewer, id)
         IN /\ db' = DeleteRows(db, viewer, id)
            /\ lastWr' = [NoIns EXCEPT
                             !.result = IF rows # {} THEN "deleted" ELSE "kept",
                             !.msg = [id |-> id, viewer |-> viewer],
                             !.before = db, !.after = db']
            /\ committed' = [i \in DOMAIN committed \ {m.id : m \in rows} |->
                               committed[i]]
    /\ UNCHANGED <<txSnap, conn, ins, rd>>
    /\ UNCHANGED <<pageVars, hubVars, smtpVars, tokenVars, listVars,
                   deliverVars>>

(***************************************************************************)
(* Listing and pagination.                                                 *)
(***************************************************************************)
MaxInt32 == 2147483647
MinInt32 == -MaxInt32 - 1

\* int32 addition: Go wraps around on overflow.
Add32(a, b) ==
    IF a > 0 /\ b > 0 /\ a > MaxInt32 - b
    THEN (a + MinInt32) + (b + MinInt32)
    ELSE IF a < 0 /\ b < 0 /\ a < MinInt32 - b
    THEN (a - MinInt32) + (b - MinInt32)
    ELSE a + b

\* int32 multiplication n * x for n >= 0, wrapping around like Add32.
RECURSIVE Mul32(_, _)
Mul32(n, x) ==
    IF n = 0 THEN 0
    ELSE CHOOSE r \in {Add32(Add32(h, h), IF n % 2 = 1 THEN x ELSE 0) :
                          h \in {Mul32(n \div 2, x)}} : TRUE

MaxLimit == 100
DefaultPage == 1
DefaultLimit == 10

calculateOffsetOffByOne(page, limit) ==
    Mul32(IF page < 1 THEN 1 ELSE page, limit)
calculateOffset(page, limit) ==
    Mul32((IF page < 1 THEN 1 ELSE page) - 1, limit)

\* A query parameter: absent or not a number (ok = FALSE), or the int64
\* strconv.ParseInt returns, written hi * 2^31 + lo with 0 <= lo < 2^31.
\* A query value: whether the parameter is there, whether ParseInt accepts
\* it, and the 64-bit number it then gives.
QAbsent == [given |-> FALSE, ok |-> FALSE, neg |-> FALSE, hi |-> 0, lo |-> 0]
QMalformed == [QAbsent EXCEPT !.given = TRUE]
QInt(n) ==
    [given |-> TRUE, ok |-> TRUE, neg |-> n < 0, hi |-> 0,
     lo |-> IF n < 0 THEN -n ELSE n]

\* A positive number of more than 31 bits: hi * 2^31 + lo.
QWide(hi, lo) ==
    [given |-> TRUE, ok |-> TRUE, neg |-> FALSE, hi |-> hi, lo |-> lo]

\* pageStr != "" && err == nil && val > 0
QPositive(v) == v.given /\ v.ok /\ ~v.neg /\ (v.hi > 0 \/ v.lo > 0)

\* int32(val) of a positive int64: the low 32 bits, bit 31 being the sign.
Narrow32(v) == IF v.hi % 2 = 1 THEN v.lo + MinInt32 ELSE v.lo

GetPaginationParams(q) ==
    LET page == IF QPositive(q.page) THEN Narrow32(q.page) ELSE DefaultPage
        lim0 == IF QPositive(q.limit) THEN Narrow32(q.limit) ELSE DefaultLimit
        lim == IF lim0 > MaxLimit THEN MaxLimit ELSE lim0
    IN [Page |-> page, Limit |-> lim, Offset |-> calculateOffset(page, lim),
        Sort |-> IF q.sort \in {"newest", "oldest", "asc", "desc"}
                 THEN q.sort ELSE "newest"]

GetHasNext(offset, limit, count) == Add32(offset, limit) < count

\* ORDER BY m.created_at, m.id: a before b in ascending order.
Before(a, b) ==
    a.createdAt < b.createdAt \/ (a.createdAt = b.createdAt /\ a.id < b.id)

RECURSIVE SortAsc(_)
SortAsc(S) ==
    IF S = {} THEN <<>>
    ELSE LET m == CHOOSE x \in S : \A y \in S \ {x} : Before(x, y)
         IN <<m>> \o SortAsc(S \ {m})

RECURSIVE SortDescIdAsc(_)
SortDescIdAsc(S) ==
    IF S = {} THEN <<>>
    ELSE LET m == CHOOSE x \in S : \A y \in S \ {x} :
                      \/ y.createdAt < x.createdAt
                      \/ y.createdAt = x.createdAt /\ x.id < y.id
         IN <<m>> \o SortDescIdAsc(S \ {m})

RECURSIVE SortDesc(_)
SortDesc(S) ==
    IF S = {} THEN <<>>
    ELSE LET m == CHOOSE x \in S : \A y \in S \ {x} : Before(y, x)
         IN <<m>> \o SortDesc(S \ {m})

\* The WHERE clause of ListMessages for a box.
InBoxToOnly(d, m, email, box) ==
    IF box = "sent" THEN m.from = email
    ELSE \E r \in d.recipients :
            r.mid = m.id /\ r.email = email /\ r.type = "to"
InBox(d, m, email, box) ==
    IF box = "sent" THEN m.from = email
    ELSE \E r \in d.recipients : r.mid = m.id /\ r.email = email

\* The operator LIKE without ESCAPE: % stands for any text, _ for any one
\* character, and letters match whatever their case.
RECURSIVE Like(_, _)
Like(pat, str) ==
    IF pat = <<>> THEN str = <<>>
    ELSE IF Head(pat) = "%"
    THEN Like(Tail(pat), str) \/ (str # <<>> /\ Like(pat, Tail(str)))
    ELSE /\ str # <<>>
         /\ Head(pat) = "_" \/ Lower(Head(pat)) = Lower(Head(str))
         /\ Like(Tail(pat), Tail(str))

\* The search condition of ListMessages.
Matches(d, m, search) ==
    LET trimmed == TrimSpace(search)
        term == <<"%">> \o trimmed \o <<"%">>
    IN trimmed # <<>> =>
          \/ Like(term, m.subject)
          \/ Like(term, m.from)
          \/ \E r \in d.recipients : r.mid = m.id /\ Like(term, r.email)

SummaryWithoutAttachments(d, m) ==
    [id |-> m.id, from |-> m.from, subject |-> m.subject,
     createdAt |-> m.createdAt, hasAttachments |-> FALSE]
Summary(d, m) ==
    [id |-> m.id, from |-> m.from, subject |-> m.subject,
     createdAt |-> m.createdAt,
     hasAttachments |-> \E a \in d.attachments : a.mid = m.id]

\* listRecipients reads the recipient rows of the listed messages without
\* ORDER BY: the rows of a message come in any order.
RowOrders(d, id) ==
    LET rows == {r \in d.recipients : r.mid = id}
    IN {f \in [1..Cardinality(rows) -> rows] :
           \A i, j \in DOMAIN f : i # j => f[i] # f[j]}

RECURSIVE EmailsOfType(_, _)
EmailsOfType(rows, t) ==
    IF rows = <<>> THEN <<>>
    ELSE (IF Head(rows).type = t THEN <<Head(rows).email>> ELSE <<>>)
             \o EmailsOfType(Tail(rows), t)

\* result[messageID][rtype] = append(result[messageID][rtype], email)
RecipientGroups(rows) ==
    [t \in {rows[i].type : i \in DOMAIN rows} |-> EmailsOfType(rows, t)]

\* ListMessages: the count of the box and one page of it.
ListMessages(d, email, box, search, sort, offset, limit) ==
    LET lim == IF limit <= 0 THEN 10 ELSE limit
        off == IF offset < 0 THEN 0 ELSE offset
        sel == {m \in d.messages :
                   InBox(d, m, email, box) /\ Matches(d, m, search)}
        total == Cardinality(sel)
        ordered == IF sort \in {"oldest", "asc"} THEN SortAsc(sel)
                   ELSE SortDesc(sel)
        k == IF off >= total THEN 0
             ELSE IF total - off < lim THEN total - off ELSE lim
    IN [items |-> [j \in 1..k |-> Summary(d, ordered[off + j])],
        count |-> total]

\* The mailboxes paged through: the viewer's inbox and sent box.
PageViewer == bX
BoxIds == 1..MaxBox
BoxCands == {[from |-> aX, rcpts |-> <<Rcpt(bX, "to")>>],
             [from |-> bX, rcpts |-> <<Rcpt(cX, "to")>>]}
ClockTimes == {1, 2}

IdleTrav == [st |-> "idle", box |-> "inbox", sort |-> "newest", limit |-> 0,
             page |-> 0, seen |-> <<>>, sizes |-> <<>>, modified |-> FALSE,
             start |-> {}]

NoRequest == [called |-> FALSE, page |-> QAbsent, limit |-> QAbsent,
              pageNo |-> 0, offset |-> 0, lim |-> 0, count |-> 0, n |-> 0,
              hasMore |-> FALSE, err |-> "nil"]

\* A message arrives: InsertMessage as a whole, with a fresh id and the
\* current time (time.Now never goes back).
PgInsert ==
    /\ ~hn.called
    /\ \E id \in BoxIds, c \in BoxCands, at \in ClockTimes :
         /\ ~HasId(db, id)
         /\ \A m \in db.messages : m.createdAt <= at
         /\ db' = InsertAll(db, CandMsg(id, c.from, at), c.rcpts, <<>>)
    /\ trav' = [trav EXCEPT !.modified = @ \/ trav.st # "idle"]
    /\ UNCHANGED <<txSnap, conn, ins, lastWr, rd, committed, hn>>
    /\ UNCHANGED <<hubVars, smtpVars, tokenVars, listVars, deliverVars>>

\* A client starts listing a box from page 1 with a page size.
TravStart ==
    /\ trav.st = "idle"
    /\ ~hn.called
    /\ \E box \in {"inbox", "sent"}, sort \in {"newest", "oldest"},
          l \in 1..MaxPageSize :
         trav' = [IdleTrav EXCEPT !.st = "run", !.box = box, !.sort = sort,
                                  !.limit = l, !.page = 1,
                                  !.start = {m.id : m \in
                                      {x \in db.messages :
                                          InBox(db, x, PageViewer, box)}}]
    /\ UNCHANGED <<storeVars, hn, hubVars, smtpVars, tokenVars, listVars,
                   deliverVars>>

\* The client asks for the next page: the offset of the page, ListMessages,
\* and GetHasNext to know whether to go on.
TravPage ==
    /\ trav.st = "run"
    /\ LET off == calculateOffset(trav.page, trav.limit)
           res == ListMessages(db, PageViewer, trav.box, <<>>, trav.sort, off,
                               trav.limit)
           more == GetHasNext(off, trav.limit, res.count)
       IN trav' = [trav EXCEPT
                      !.seen = @ \o [j \in DOMAIN res.items |-> res.items[j].id],
                      !.sizes = Append(@, Len(res.items)),
                      !.page = IF more THEN @ + 1 ELSE @,
                      !.st = IF more THEN "run" ELSE "done"]
    /\ UNCHANGED <<storeVars, hn, hubVars, smtpVars, tokenVars, listVars,
                   deliverVars>>

\* The client is done with the listing.
TravEnd ==
    /\ trav.st = "done"
    /\ trav' = IdleTrav
    /\ UNCHANGED <<storeVars, hn, hubVars, smtpVars, tokenVars, listVars,
                   deliverVars>>

\* Query values of a page request.
PageVals == {QAbsent, QMalformed, QInt(-1), QInt(1), QInt(2), QInt(3),
             QInt(21474837), QWide(1, 0)}
LimitVals == {QAbsent, QInt(1), QInt(2), QInt(100), QWide(3, MaxInt32 - 4)}

\* One page request: the parameters of the query string, the page of the
\* viewer's inbox, and the has-more flag of the answer.  ListMessages fails
\* only when the database does, and GetPaginationParams never.
PageRequest ==
    /\ trav.st = "idle"
    /\ ~hn.called
    /\ \E pg \in PageVals, lm \in LimitVals :
         LET p == GetPaginationParams([page |-> pg, limit |-> lm, sort |-> ""])
             res == ListMessages(db, PageViewer, "inbox", <<>>, p.Sort,
                                 p.Offset,
                                 p.Limit)
         IN hn' = [called |-> TRUE, page |-> pg, limit |-> lm,
                   pageNo |-> p.Page, offset |-> p.Offset, lim |-> p.Limit,
                   count |-> res.count, n |-> Len(res.items),
                   hasMore |-> GetHasNext(p.Offset, p.Limit, res.count),
                   err |-> "nil"]
    /\ UNCHANGED <<storeVars, trav, hubVars, smtpVars, tokenVars, listVars,
                   deliverVars>>

(***************************************************************************)
(* The notification hub.  Subscribe and the registry part of unsubscribe   *)
(* hold the write lock over a few map operations and are one step each;    *)
(* Broadcast holds the read lock over its whole loop.                      *)
(***************************************************************************)
ChanCap == 8
Payload == "event"
Broadcasters == {"p1"}
SubAddrs == {aX, bX}

\* The address lists Broadcast is called with.
BcLists == {<<>>, <<aX>>, <<bX, aX, aX>>, <<cX, <<>>>>}

IdleBc == [pc |-> "idle", emails |-> <<>>, todo |-> {}, log |-> {}]

\* h.subs[email]: no entry reads as no subscriber.
Subscribers(reg, email) == IF email \in DOMAIN reg THEN reg[email] ELSE {}

\* The channels Broadcast ranges over: those of the distinct non-empty
\* addresses of the list.
TargetsOfEveryAddress(reg, emails) ==
    UNION {reg[e] : e \in DOMAIN reg}
Targets(reg, emails) ==
    UNION {Subscribers(reg, e) : e \in Range(emails) \ {<<>>}}

\* select { case ch <- payload: default: } is ready whatever the buffer.
SendReadyWhenRoom(buf) == Len(buf) < ChanCap
SendReady(buf) == TRUE

\* The buffer after the select: the payload is queued if there is room.
TrySend(buf, payload) ==
    IF Len(buf) < ChanCap THEN Append(buf, payload) ELSE buf

\* The result of the last Broadcast has been looked at.
HubQuiet == \A p \in Broadcasters : bc[p].pc # "done"

\* h.mu.Lock() returns when no Broadcast holds the read lock.
WriteLockAlwaysFree(readers) == TRUE
WriteLockFree(readers) == readers = {}

\* Subscribe: a new channel of capacity 8, registered under the address.
Subscribe ==
    /\ WriteLockFree(mu)
    /\ HubQuiet
    /\ Len(chans) < MaxSubs
    /\ \E email \in SubAddrs :
         LET ch == Len(chans) + 1
         IN /\ chans' = Append(chans, [email |-> email, buf |-> <<>>,
                                       closed |-> FALSE, st |-> "live",
                                       since |-> Len(ingested)])
            /\ subs' = [e \in DOMAIN subs \cup {email} |->
                          Subscribers(subs, e) \cup
                              (IF e = email THEN {ch} ELSE {})]
    /\ UNCHANGED <<mu, bc, storeVars, pageVars, smtpVars, tokenVars, listVars,
                   deliverVars>>

\* The registry after delete(subscribers, ch) and, when that leaves the
\* address without subscribers, delete(h.subs, email).
RemoveAddress(reg, email, ch) ==
    [e \in DOMAIN reg \ {email} |-> reg[e]]
RemoveSubscriber(reg, email, ch) ==
    LET left == Subscribers(reg, email) \ {ch}
    IN [e \in (IF left = {} THEN DOMAIN reg \ {email} ELSE DOMAIN reg) |->
          IF e = email THEN left ELSE reg[e]]

\* unsubscribe, under the write lock: the channel leaves the registry, and
\* the address with its last channel.
Unsubscribe(ch) ==
    /\ WriteLockFree(mu)
    /\ HubQuiet
    /\ chans[ch].st = "live"
    /\ subs' = RemoveSubscriber(subs, chans[ch].email, ch)
    /\ chans' = [chans EXCEPT ![ch].st = "removed"]
    /\ UNCHANGED <<mu, bc, storeVars, pageVars, smtpVars, tokenVars, listVars,
                   deliverVars>>

\* unsubscribe, after the lock is released: close(ch).
CloseChan(ch) ==
    /\ chans[ch].st = "removed"
    /\ ~chans[ch].closed
    /\ HubQuiet
    /\ chans' = [chans EXCEPT ![ch].st = "closed", ![ch].closed = TRUE]
    /\ UNCHANGED <<subs, mu, bc, storeVars, pageVars, smtpVars, tokenVars,
                   listVars, deliverVars>>

\* The stream handler of a subscription takes a payload from its channel.
Receive(ch) ==
    /\ chans[ch].st = "live"
    /\ HubQuiet
    /\ chans[ch].buf # <<>>
    /\ chans' = [chans EXCEPT ![ch].buf = Tail(@)]
    /\ UNCHANGED <<subs, mu, bc, storeVars, pageVars, smtpVars, tokenVars,
                   listVars, deliverVars>>

\* Broadcast up to the read lock: an empty list returns at once.
BcStart(p) ==
    /\ bc[p].pc = "idle"
    /\ HubQuiet
    /\ \E emails \in BcLists :
         IF Len(emails) = 0
         THEN /\ bc' = [bc EXCEPT ![p] = [IdleBc EXCEPT !.pc = "done"]]
              /\ mu' = mu
         ELSE /\ bc' = [bc EXCEPT ![p] =
                           [pc |-> "loop", emails |-> emails,
                            todo |-> Targets(subs, emails), log |-> {}]]
              /\ mu' = mu \cup {p}
    /\ UNCHANGED <<subs, chans, storeVars, pageVars, smtpVars, tokenVars,
                   listVars, deliverVars>>

\* One round of the loop: the non-blocking send to one channel.
BcSend(p) ==
    /\ bc[p].pc = "loop"
    /\ \E ch \in bc[p].todo :
         /\ SendReady(chans[ch].buf)
         /\ chans' = [chans EXCEPT ![ch].buf = TrySend(@, Payload)]
         /\ bc' = [bc EXCEPT ![p].todo = @ \ {ch},
                             ![p].log = @ \cup
                                 {[ch |-> ch,
                                   closed |-> chans[ch].closed,
                                   full |-> Len(chans[ch].buf) = ChanCap,
                                   kept |-> chans'[ch].buf = chans[ch].buf,
                                   sent |-> chans'[ch].buf =
                                            Append(chans[ch].buf, Payload)]}]
    /\ UNCHANGED <<subs, mu, storeVars, pageVars, smtpVars, tokenVars,
                   listVars, deliverVars>>

\* The loop is over: the deferred RUnlock, and Broadcast returns.
BcEnd(p) ==
    /\ bc[p].pc = "loop"
    /\ bc[p].todo = {}
    /\ bc' = [bc EXCEPT ![p].pc = "done"]
    /\ mu' = mu \ {p}
    /\ UNCHANGED <<subs, chans, storeVars, pageVars, smtpVars, tokenVars,
                   listVars, deliverVars>>

\* The caller of Broadcast goes on.
BcReturn(p) ==
    /\ bc[p].pc = "done"
    /\ bc' = [bc EXCEPT ![p] = IdleBc]
    /\ UNCHANGED <<subs, chans, mu, storeVars, pageVars, smtpVars, tokenVars,
                   listVars, deliverVars>>

(***************************************************************************)
(* Mail documents and their decomposition.  A document is what the mail    *)
(* reader makes of the raw bytes: whether the header block parses, the     *)
(* header fields, the parts NextPart hands out in order, and whether       *)
(* NextPart then fails instead of reporting the end.                       *)
(***************************************************************************)
normalizeEmail(email) == TrimSpace(ToLower(email))

HasPrefix(str, prefix) ==
    Len(str) >= Len(prefix) /\ SubSeq(str, 1, Len(prefix)) = prefix

TextPlain == <<"text/", "plain">>
TextHtml == <<"text/", "html">>
ImagePng == <<"image/", "png">>
UnknownFrom == <<"unknown@localsmtp">>
DefaultFilename == <<"attachment">>

Inline(mt, body) ==
    [kind |-> "inline", mediaType |-> mt, body |-> body, readErr |-> FALSE,
     filename |-> <<>>]
AttachmentPart(fn, mt, body) ==
    [kind |-> "attachment", mediaType |-> mt, body |-> body,
     readErr |-> FALSE, filename |-> fn]
Unreadable(part) == [part EXCEPT !.readErr = TRUE]

NoDoc == [raw |-> <<>>, hdrErr |-> FALSE, subject |-> <<>>, from |-> <<>>,
          to |-> <<>>, cc |-> <<>>, bcc |-> <<>>, parts |-> <<>>,
          partErr |-> FALSE]

\* Bytes the mail reader cannot open.
DocBadHeader == [NoDoc EXCEPT !.raw = <<0>>, !.hdrErr = TRUE]
\* A single text part, no address headers.
DocPlain ==
    [NoDoc EXCEPT !.raw = <<1>>, !.subject = <<"s">>,
                  !.parts = <<Inline(TextPlain, <<"h", "i">>)>>]
\* Text, HTML and an attachment, with From, To and Cc headers.
DocFull ==
    [NoDoc EXCEPT !.raw = <<2, 2>>, !.subject = <<"r", "e">>,
                  !.from = <<<<"C">>>>, !.to = <<<<"B">>>>,
                  !.cc = <<<<"c", " ">>>>,
                  !.parts = <<Inline(TextPlain, <<"t">>),
                              Inline(TextHtml, <<"<", "p", ">">>),
                              AttachmentPart(<<"f">>, ImagePng, <<1, 2>>)>>]
\* A text part and an attachment, then a part NextPart cannot read.
DocBrokenPart ==
    [NoDoc EXCEPT !.raw = <<3>>, !.to = <<<<"b">>>>,
                  !.parts = <<Inline(TextPlain, <<"t">>),
                              AttachmentPart(<<" ">>, ImagePng, <<9>>)>>,
                  !.partErr = TRUE]
\* Two text parts, a part without media type whose body cannot be read, an
\* inline image and an attachment whose body cannot be read.
DocOdd ==
    [NoDoc EXCEPT !.raw = <<4>>, !.bcc = <<<<" ">>, <<"A">>>>,
                  !.parts = <<Inline(TextPlain, <<"x">>),
                              Inline(TextPlain \o <<"; charset=utf-8">>,
                                     <<"y">>),
                              Unreadable(Inline(<<>>, <<"z">>)),
                              Inline(ImagePng, <<"i">>),
                              Unreadable(AttachmentPart(<<"g">>, ImagePng,
                                                        <<5>>))>>]
Docs == {DocBadHeader, DocPlain, DocFull, DocBrokenPart, DocOdd}

\* addRecipient over a list of addresses: empty addresses are skipped, an
\* address is held once per type.
addRecipientsRaw(base, rtype, list) ==
    base \cup {Rcpt(list[i], rtype) :
                  i \in {j \in DOMAIN list : normalizeEmail(list[j]) # <<>>}}
addRecipients(base, rtype, list) ==
    base \cup {Rcpt(normalizeEmail(list[i]), rtype) :
                  i \in {j \in DOMAIN list : normalizeEmail(list[j]) # <<>>}}

RecipientsHeaderOnly(envelopeTo, base) == base
RecipientsUnlessListed(envelopeTo, base) ==
    addRecipients(base, "to",
                  SelectSeq(envelopeTo,
                            LAMBDA e : \A r \in base :
                                          r.email # normalizeEmail(e)))
recipientsFromEnvelope(envelopeTo, base) ==
    addRecipients(base, "to", envelopeTo)

\* flattenRecipients ranges over two maps, whose order is not fixed: the
\* types in any order, the addresses of a type in any order.
flattenRecipients(base) ==
    {f \in [1..Cardinality(base) -> base] :
        /\ \A i, j \in DOMAIN f : i # j => f[i] # f[j]
        /\ \A i, j, k \in DOMAIN f :
              i < j /\ j < k /\ f[i].type = f[k].type => f[j].type = f[i].type}

\* TextBody and HTMLBody collect the inline parts of their type.
AppendBodyAlways(cur, body) == cur \o <<"\n">> \o body
AppendBody(cur, body) ==
    IF cur = <<>> THEN body ELSE cur \o <<"\n">> \o body

\* One round of the NextPart loop.
ReadPart(acc, part) ==
    IF part.readErr THEN acc
    ELSE IF part.kind = "inline"
    THEN IF HasPrefix(part.mediaType, TextPlain) \/ part.mediaType = <<>>
         THEN [acc EXCEPT !.text = AppendBody(@, part.body)]
         ELSE IF HasPrefix(part.mediaType, TextHtml)
         THEN [acc EXCEPT !.html = AppendBody(@, part.body)]
         ELSE acc
    ELSE [acc EXCEPT !.atts = Append(@,
              [filename |-> IF TrimSpace(part.filename) = <<>>
                            THEN DefaultFilename ELSE part.filename,
               contentType |-> part.mediaType,
               data |-> part.body, size |-> Len(part.body)])]

RECURSIVE ReadParts(_, _)
ReadParts(acc, parts) ==
    IF parts = <<>> THEN acc
    ELSE ReadParts(ReadPart(acc, Head(parts)), Tail(parts))

\* parseMessage: the message, the recipient map, the attachments and
\* whether an error is returned with them.
parseMessage(envelopeFrom, envelopeTo, doc, id, now) ==
    LET seed == [id |-> id, from |-> normalizeEmail(envelopeFrom),
                 subject |-> <<>>, text |-> <<>>, html |-> <<>>,
                 raw |-> doc.raw, rawSize |-> Len(doc.raw), createdAt |-> now]
        from1 == IF seed.from = <<>> /\ Len(doc.from) > 0
                 THEN normalizeEmail(doc.from[1]) ELSE seed.from
        from2 == IF from1 = <<>> THEN UnknownFrom ELSE from1
        base == addRecipients(addRecipients(addRecipients({},
                    "to", doc.to), "cc", doc.cc), "bcc", doc.bcc)
        read == ReadParts([text |-> <<>>, html |-> <<>>, atts |-> <<>>],
                          doc.parts)
    IN IF doc.hdrErr
       THEN [message |-> seed,
             recipients |-> recipientsFromEnvelope(envelopeTo, {}),
             attachments |-> <<>>, err |-> TRUE]
       ELSE [message |-> [seed EXCEPT !.subject = doc.subject,
                                      !.from = from2, !.text = read.text,
                                      !.html = read.html],
             recipients |-> recipientsFromEnvelope(envelopeTo, base),
             attachments |-> read.atts, err |-> doc.partErr]

\* The same list without the sender.
messageAudienceRecipientsOnly(message, recipients) ==
    [i \in DOMAIN recipients |-> recipients[i].email]

\* messageAudience: the sender, then every recipient.
messageAudience(message, recipients) ==
    <<message.from>> \o [i \in DOMAIN recipients |-> recipients[i].email]

(***************************************************************************)
(* The SMTP session.  The protocol library owns the connection: it calls   *)
(* Rcpt only after a Mail that returned nil, Data only after a Mail and at *)
(* least one Rcpt that returned nil, and Reset after every Data and on     *)
(* RSET.  fromReceived is the library's record of the accepted MAIL; the   *)
(* accepted recipients are as many as the session's list holds.            *)
(***************************************************************************)
ErrAuthRequired == "ErrAuthRequired"
AuthUsername == "user"
AuthPassword == "secret"
Usernames == {AuthUsername, "guest"}
Passwords == {AuthPassword, "wrong"}

\* MAIL FROM:<> is the null reverse-path.
MailVals == {<<>>, <<"A">>}
\* The library hands Rcpt a mailbox, never an empty string.
RcptVals == {<<"B">>, <<"c", " ">>}

\* from, to and authenticated are the session's fields.  The others are the
\* protocol library's view of the connection: whether a MAIL command was
\* accepted, the arguments of the accepted MAIL and RCPT commands of the
\* transaction in progress, and the last error a callback returned.
NewSession == [from |-> <<>>, to |-> <<>>, authenticated |-> FALSE,
               fromReceived |-> FALSE, lastErr |-> "none",
               mail |-> <<>>, rcpts |-> <<>>]

\* sasl.Plain and a mechanism the server does not offer.
SaslPlain == "PLAIN"
Mechanisms == {SaslPlain, "LOGIN"}

AuthCallAnyMechanism(enabled, s, mech, username, password) ==
    IF ~enabled THEN [sess |-> s, err |-> "authentication not enabled"]
    ELSE IF username = AuthUsername /\ password = AuthPassword
    THEN [sess |-> [s EXCEPT !.authenticated = TRUE], err |-> "nil"]
    ELSE [sess |-> s, err |-> "invalid credentials"]
AuthCall(enabled, s, mech, username, password) ==
    IF ~enabled THEN [sess |-> s, err |-> "authentication not enabled"]
    ELSE IF mech # SaslPlain
    THEN [sess |-> s, err |-> "unsupported authentication mechanism"]
    ELSE IF username = AuthUsername /\ password = AuthPassword
    THEN [sess |-> [s EXCEPT !.authenticated = TRUE], err |-> "nil"]
    ELSE [sess |-> s, err |-> "invalid credentials"]

MailCallNoAuthCheck(enabled, s, from) ==
    [sess |-> [s EXCEPT !.from = normalizeEmail(from)], err |-> "nil"]
MailCall(enabled, s, from) ==
    IF enabled /\ ~s.authenticated THEN [sess |-> s, err |-> ErrAuthRequired]
    ELSE [sess |-> [s EXCEPT !.from = normalizeEmail(from)], err |-> "nil"]

RcptCall(enabled, s, to) ==
    IF enabled /\ ~s.authenticated THEN [sess |-> s, err |-> ErrAuthRequired]
    ELSE [sess |-> [s EXCEPT !.to = Append(@, normalizeEmail(to))],
          err |-> "nil"]

ResetCallNoop(s) == s
ResetCall(s) == [s EXCEPT !.from = <<>>, !.to = <<>>]

\* The library forgets the transaction whenever it calls Reset.
LibraryReset(s) ==
    [s EXCEPT !.fromReceived = FALSE, !.lastErr = "none",
              !.mail = <<>>, !.rcpts = <<>>]

\* The model follows the server up to its last DATA command.
ServingUpTo(n) == Len(ingested) < n
Serving == ServingUpTo(MaxData)

\* The client reconnects: backend.NewSession.
Connect ==
    /\ Serving
    /\ sess # NewSession
    /\ sess' = NewSession
    /\ UNCHANGED <<authEnabled, ingested, storeVars, pageVars, hubVars,
                   tokenVars, listVars, deliverVars>>

\* AUTH PLAIN.
Auth ==
    /\ Serving
    /\ \E mech \in Mechanisms, u \in Usernames, pw \in Passwords :
         sess' = AuthCall(authEnabled, sess, mech, u, pw).sess
    /\ UNCHANGED <<authEnabled, ingested, storeVars, pageVars, hubVars,
                   tokenVars, listVars, deliverVars>>

\* AUTH with its outcome kept: the mechanism, the credentials, the error
\* and the flag before and after.
NoAuth == [tried |-> FALSE, mech |-> SaslPlain, username |-> AuthUsername,
           password |-> AuthPassword, err |-> "nil", before |-> FALSE,
           after |-> FALSE]
AuthTry ==
    /\ Serving
    /\ \E mech \in Mechanisms, u \in Usernames, pw \in Passwords :
         LET r == AuthCall(authEnabled, sess, mech, u, pw)
         IN /\ sess' = r.sess
            /\ au' = [tried |-> TRUE, mech |-> mech, username |-> u,
                      password |-> pw, err |-> r.err,
                      before |-> sess.authenticated,
                      after |-> r.sess.authenticated]
    /\ UNCHANGED <<authEnabled, ingested, storeVars, pageVars, hubVars,
                   tokenVars, listVars, dl, snd, pp, un, strm, ss>>

\* MAIL FROM.
MailStep(n) ==
    /\ ServingUpTo(n)
    /\ \E from \in MailVals :
         LET r == MailCall(authEnabled, sess, from)
         IN sess' = [r.sess EXCEPT !.lastErr = r.err,
                                   !.fromReceived = @ \/ r.err = "nil",
                                   !.mail = IF r.err = "nil" THEN from ELSE @]
    /\ UNCHANGED <<authEnabled, ingested, storeVars, pageVars, hubVars,
                   tokenVars, listVars, deliverVars>>

Mail == MailStep(MaxData)

\* RCPT TO.
RcptStep(n, maxRcpts) ==
    /\ ServingUpTo(n)
    /\ sess.fromReceived
    /\ Len(sess.rcpts) < maxRcpts
    /\ \E to \in RcptVals :
         LET r == RcptCall(authEnabled, sess, to)
         IN sess' = [r.sess EXCEPT !.lastErr = r.err,
                                   !.rcpts = IF r.err = "nil"
                                             THEN Append(@, to) ELSE @]
    /\ UNCHANGED <<authEnabled, ingested, storeVars, pageVars, hubVars,
                   tokenVars, listVars, deliverVars>>

RcptTo == RcptStep(MaxData, MaxRcpts)

\* RSET.
ResetStep(n) ==
    /\ ServingUpTo(n)
    /\ sess.fromReceived
    /\ sess' = LibraryReset(ResetCall(sess))
    /\ UNCHANGED <<authEnabled, ingested, storeVars, pageVars, hubVars,
                   tokenVars, listVars, deliverVars>>

Reset == ResetStep(MaxData)

\* The reply code the protocol library sends for what Data returned: 250
\* for nil, the code of an *smtp.SMTPError, 554 for any other error.
toSMTPStatus(err) ==
    IF err = "nil" THEN 250 ELSE IF err = ErrAuthRequired THEN 502 ELSE 554

\* ingested: one entry per DATA command.  It tells what Data returned and
\* whether the session had authenticated; of a message that was stored also
\* its id, the envelope, the document and whether parseMessage reported an
\* error.  mail and rcpts are the arguments of the commands of its own
\* transaction.
Ingest(err) ==
    [err |-> err, authenticated |-> sess.authenticated, id |-> 0,
     from |-> <<>>, to |-> <<>>, doc |-> NoDoc, parseErr |-> FALSE,
     reply |-> toSMTPStatus(err), stored |-> FALSE, announced |-> FALSE,
     mail |-> sess.mail, rcpts |-> sess.rcpts]

\* Broadcast as one step: every target channel with room takes the payload.
\* The keys of the map unique: the non-empty addresses of the list, each
\* once.  (The order in which the map is ranged over does not show: every
\* channel is registered under one address.)
RECURSIVE uniqueFrom(_, _)
uniqueFrom(emails, seen) ==
    IF emails = <<>> THEN seen
    ELSE uniqueFrom(Tail(emails),
                    IF Head(emails) = <<>> \/ Head(emails) \in Range(seen)
                    THEN seen ELSE Append(seen, Head(emails)))
EveryNonEmpty(emails) == SelectSeq(emails, LAMBDA e : e # <<>>)
unique(emails) == uniqueFrom(emails, <<>>)

\* The two loops of Broadcast: for every address, the non-blocking send to
\* every channel registered under it.
RECURSIVE SendEach(_, _, _, _)
SendEach(cs, reg, list, payload) ==
    IF list = <<>> THEN cs
    ELSE SendEach([ch \in DOMAIN cs |->
                      IF ch \in Subscribers(reg, Head(list))
                      THEN [cs[ch] EXCEPT !.buf = TrySend(@, payload)]
                      ELSE cs[ch]],
                  reg, Tail(list), payload)

\* Broadcast as one step, the read lock held throughout.
BroadcastAll(cs, reg, emails, payload) ==
    IF Len(emails) = 0 THEN cs
    ELSE SendEach(cs, reg, unique(emails), payload)

\* buildEvent: the id, the sender, the "to" recipients and the time.
RECURSIVE ToList(_)
ToList(recipients) ==
    IF recipients = <<>> THEN <<>>
    ELSE (IF Head(recipients).type = "to" THEN <<Head(recipients).email>>
          ELSE <<>>) \o ToList(Tail(recipients))
buildEvent(message, recipients) ==
    [id |-> message.id, from |-> message.from, to |-> ToList(recipients),
     createdAt |-> message.createdAt]

\* DATA: the bytes are read, decomposed, stored and announced; the library
\* then resets the transaction.  InsertMessage either stores all rows or
\* none.
DataStep(n, docs) ==
    /\ ServingUpTo(n)
    /\ sess.fromReceived
    /\ Len(sess.rcpts) > 0
    /\ conn = "free"
    /\ mu = {}
    /\ \/ \E doc \in docs :
            LET id == Cardinality(db.messages) + 1
                p == parseMessage(sess.from, sess.to, doc, id,
                                  Len(ingested) + 1)
            IN \E rs \in flattenRecipients(p.recipients) :
                 /\ db' = InsertAll(db, p.message, rs, p.attachments)
                 /\ chans' = BroadcastAll(chans, subs,
                                          messageAudience(p.message, rs),
                                          buildEvent(p.message, rs))
                 /\ ingested' = Append(ingested,
                        [Ingest("nil") EXCEPT !.id = id, !.from = sess.from,
                                              !.to = sess.to, !.doc = doc,
                                              !.parseErr = p.err,
                                              !.stored = db' # db,
                                              !.announced = chans' # chans])
       \/ \E failed \in {"read", "store"} :
            /\ ingested' = Append(ingested, Ingest(failed))
            /\ UNCHANGED <<db, chans>>
    /\ sess' = LibraryReset(ResetCall(sess))
    /\ UNCHANGED <<authEnabled, txSnap, conn, ins, lastWr, rd, committed,
                   subs, mu, bc, pageVars, tokenVars, listVars, deliverVars>>

Data == DataStep(MaxData, Docs)

\* One connection of a server without authentication, followed over several
\* transactions of plain messages.
ConnDocs == {DocPlain}
ConnMail == MailStep(MaxTransactions)
ConnRcptTo == RcptStep(MaxTransactions, MaxConnRcpts)
ConnReset == ResetStep(MaxTransactions)
ConnData == DataStep(MaxTransactions, ConnDocs)

(***************************************************************************)
(* Two connections served side by side, each by its own goroutine.  The    *)
(* library keeps the commands of a connection with that connection; the    *)
(* backend makes the session the handlers of the connection work on.       *)
(***************************************************************************)
SsConns == {"c1", "c2"}
\* The clients send from either of two addresses, each to a recipient of
\* its own.
SsMailVals(c) == {<<"A">>, <<"C">>}
SsRcptVals(c) == IF c = "c1" THEN {<<"B">>} ELSE {<<"c", " ">>}

\* backend.NewSession: a session of its own for every connection.
SessionShared(c) == "c1"
SessionOf(c) == c

NoParse == [message |-> NoMsg, recipients |-> {}, attachments |-> <<>>,
            err |-> FALSE]
NoSessions ==
    [sess |-> [c \in SsConns |-> [from |-> <<>>, to |-> <<>>,
                                  authenticated |-> FALSE]],
     cn |-> [c \in SsConns |-> [authed |-> FALSE, fromReceived |-> FALSE,
                                lastErr |-> "none", mail |-> <<>>,
                                rcpts |-> <<>>, pc |-> "cmd",
                                parsed |-> NoParse]],
     log |-> <<>>]

SsServing(c) == ss.cn[c].pc = "cmd" /\ Len(ss.log) < MaxStored

\* AUTH on connection c.
SsAuth(c) ==
    /\ SsServing(c)
    /\ ~ss.cn[c].authed
    /\ \E mech \in Mechanisms, u \in Usernames, pw \in Passwords :
         LET r == AuthCall(authEnabled, ss.sess[SessionOf(c)], mech, u, pw)
         IN ss' = [ss EXCEPT !.sess[SessionOf(c)] = r.sess,
                             !.cn[c].authed = (r.err = "nil")]
    /\ UNCHANGED <<smtpVars, storeVars, pageVars, hubVars, tokenVars,
                   listVars, dl, snd, pp, au, un, strm>>

\* MAIL FROM on connection c.
SsMail(c) ==
    /\ SsServing(c)
    /\ ~ss.cn[c].fromReceived
    /\ \E from \in SsMailVals(c) :
         LET r == MailCall(authEnabled, ss.sess[SessionOf(c)], from)
         IN ss' = [ss EXCEPT !.sess[SessionOf(c)] = r.sess,
                             !.cn[c].lastErr = r.err,
                             !.cn[c].fromReceived = (r.err = "nil"),
                             !.cn[c].mail = IF r.err = "nil" THEN from ELSE @]
    /\ UNCHANGED <<smtpVars, storeVars, pageVars, hubVars, tokenVars,
                   listVars, dl, snd, pp, au, un, strm>>

\* RCPT TO on connection c.
SsRcpt(c) ==
    /\ SsServing(c)
    /\ ss.cn[c].fromReceived
    /\ Len(ss.cn[c].rcpts) < MaxConnRcpts
    /\ \E to \in SsRcptVals(c) :
         LET r == RcptCall(authEnabled, ss.sess[SessionOf(c)], to)
         IN ss' = [ss EXCEPT !.sess[SessionOf(c)] = r.sess,
                             !.cn[c].lastErr = r.err,
                             !.cn[c].rcpts = IF r.err = "nil"
                                             THEN Append(@, to) ELSE @]
    /\ UNCHANGED <<smtpVars, storeVars, pageVars, hubVars, tokenVars,
                   listVars, dl, snd, pp, au, un, strm>>

\* RSET on connection c.
SsReset(c) ==
    /\ SsServing(c)
    /\ ss.cn[c].fromReceived
    /\ ss' = [ss EXCEPT !.sess[SessionOf(c)] = ResetCall(@),
                        !.cn[c] = LibraryReset(@)]
    /\ UNCHANGED <<smtpVars, storeVars, pageVars, hubVars, tokenVars,
                   listVars, dl, snd, pp, au, un, strm>>

\* DATA on connection c, up to the call of InsertMessage: the bytes are
\* read and decomposed with the envelope of the session.
SsData(c) ==
    /\ SsServing(c)
    /\ ss.cn[c].fromReceived
    /\ Len(ss.cn[c].rcpts) > 0
    /\ LET s == ss.sess[SessionOf(c)]
       IN ss' = [ss EXCEPT !.cn[c].pc = "store",
                           !.cn[c].parsed =
                               parseMessage(s.from, s.to, DocPlain, 0,
                                            Len(ss.log) + 1)]
    /\ UNCHANGED <<smtpVars, storeVars, pageVars, hubVars, tokenVars,
                   listVars, dl, snd, pp, au, un, strm>>

\* DATA on connection c, from InsertMessage on: the message is stored and
\* announced, or InsertMessage fails; the library then resets the
\* transaction.
SsStore(c) ==
    /\ ss.cn[c].pc = "store"
    /\ conn = "free"
    /\ mu = {}
    /\ LET p == ss.cn[c].parsed
           id == Cardinality(db.messages) + 1
           message == [p.message EXCEPT !.id = id]
           done == [ss EXCEPT !.sess[SessionOf(c)] = ResetCall(@),
                              !.cn[c] = [LibraryReset(@) EXCEPT
                                            !.pc = "cmd",
                                            !.parsed = NoParse]]
       IN \/ \E rs \in flattenRecipients(p.recipients) :
               /\ db' = InsertAll(db, message, rs, p.attachments)
               /\ chans' = BroadcastAll(chans, subs,
                                        messageAudience(message, rs),
                                        buildEvent(message, rs))
               /\ ss' = [done EXCEPT !.log =
                            Append(@, [conn |-> c, id |-> id,
                                       mail |-> ss.cn[c].mail,
                                       rcpts |-> ss.cn[c].rcpts])]
          \/ /\ ss' = done
             /\ UNCHANGED <<db, chans>>
    /\ UNCHANGED <<smtpVars, txSnap, conn, ins, lastWr, rd, committed,
                   subs, mu, bc, pageVars, tokenVars, listVars, dl, snd, pp,
                   au, un, strm>>

(***************************************************************************)
(* Session tokens (internal/auth/session.go).  Time is counted in ticks, a *)
(* second being TicksPerSecond of them, so that now.Unix() rounds.  The    *)
(* MAC is taken to be collision-free: a signature spells out its key and   *)
(* its payload in an alphabet of its own, as the base64 text of the        *)
(* HMAC-SHA256 sum does with overwhelming probability.                     *)
(***************************************************************************)
Quote == "\""
Atext == {"a", "b", "c", "x", "|"}
Digits == <<"0", "1", "2", "3", "4", "5", "6", "7", "8", "9">>

RECURSIVE IndexFrom(_, _, _)
IndexFrom(str, ch, i) ==
    IF i > Len(str) THEN 0
    ELSE IF str[i] = ch THEN i ELSE IndexFrom(str, ch, i + 1)

IsAtom(str) == str # <<>> /\ \A i \in DOMAIN str : str[i] \in Atext

\* mail.ParseAddress on an addr-spec: local-part "@" domain, the local part
\* an atom or a quoted string.  Address holds the local part without its
\* quotes.
BadAddress == [ok |-> FALSE, address |-> <<>>]
AddrSpec(local, domain) ==
    IF local # <<>> /\ IsAtom(domain)
    THEN [ok |-> TRUE, address |-> local \o <<"@">> \o domain]
    ELSE BadAddress
ParseAddress(str) ==
    IF str = <<>> THEN BadAddress
    ELSE IF str[1] = Quote
    THEN LET q == IndexFrom(str, Quote, 2)
         IN IF q = 0 \/ q + 1 > Len(str) THEN BadAddress
            ELSE IF str[q + 1] # "@" THEN BadAddress
            ELSE AddrSpec(SubSeq(str, 2, q - 1), SubSeq(str, q + 2, Len(str)))
    ELSE LET at == IndexFrom(str, "@", 1)
         IN IF at = 0 \/ ~IsAtom(SubSeq(str, 1, at - 1)) THEN BadAddress
            ELSE AddrSpec(SubSeq(str, 1, at - 1), SubSeq(str, at + 1, Len(str)))

NormalizeEmail(email) ==
    LET trimmed == TrimSpace(ToLower(email))
        addr == ParseAddress(trimmed)
    IN IF trimmed = <<>> THEN [ok |-> FALSE, email |-> <<>>,
                               err |-> "email is required"]
       ELSE IF ~addr.ok THEN [ok |-> FALSE, email |-> <<>>,
                              err |-> "email must be valid"]
       ELSE [ok |-> TRUE, email |-> ToLower(addr.address), err |-> "nil"]

\* The same loop passing over the addresses NormalizeEmail refuses.
RECURSIVE NormalizeFromSkipping(_, _)
NormalizeFromSkipping(emails, result) ==
    IF emails = <<>>
    THEN IF result = <<>>
         THEN [ok |-> FALSE, emails |-> <<>>, err |-> "email is required"]
         ELSE [ok |-> TRUE, emails |-> result, err |-> "nil"]
    ELSE LET n == NormalizeEmail(Head(emails))
         IN IF ~n.ok \/ n.email \in Range(result)
            THEN NormalizeFromSkipping(Tail(emails), result)
            ELSE NormalizeFromSkipping(Tail(emails), Append(result, n.email))

RECURSIVE NormalizeFrom(_, _)
NormalizeFrom(emails, result) ==
    IF emails = <<>>
    THEN IF result = <<>>
         THEN [ok |-> FALSE, emails |-> <<>>, err |-> "email is required"]
         ELSE [ok |-> TRUE, emails |-> result, err |-> "nil"]
    ELSE LET n == NormalizeEmail(Head(emails))
         IN IF ~n.ok THEN [ok |-> FALSE, emails |-> <<>>, err |-> n.err]
            ELSE IF n.email \in Range(result)
            THEN NormalizeFrom(Tail(emails), result)
            ELSE NormalizeFrom(Tail(emails), Append(result, n.email))
normalizeEmailList(emails) == NormalizeFrom(emails, <<>>)

\* strings.Join and strings.Split with a one-character separator.
RECURSIVE Join(_, _)
Join(list, sep) ==
    IF list = <<>> THEN <<>>
    ELSE IF Len(list) = 1 THEN list[1]
    ELSE list[1] \o <<sep>> \o Join(Tail(list), sep)
RECURSIVE Split(_, _)
Split(str, sep) ==
    LET i == IndexFrom(str, sep, 1)
    IN IF i = 0 THEN <<str>>
       ELSE <<SubSeq(str, 1, i - 1)>> \o Split(SubSeq(str, i + 1, Len(str)), sep)

\* strconv.FormatInt(n, 10) and strconv.ParseInt(str, 10, 64), n >= 0.
RECURSIVE FormatInt(_)
FormatInt(n) ==
    IF n < 10 THEN <<Digits[n + 1]>>
    ELSE FormatInt(n \div 10) \o <<Digits[(n % 10) + 1]>>
DigitValue(ch) == CHOOSE d \in 0..9 : Digits[d + 1] = ch
RECURSIVE DigitsValue(_, _)
DigitsValue(str, acc) ==
    IF str = <<>> THEN acc
    ELSE DigitsValue(Tail(str), acc * 10 + DigitValue(Head(str)))
ParseInt(str) ==
    IF str # <<>> /\ \A i \in DOMAIN str : str[i] \in Range(Digits)
    THEN [ok |-> TRUE, n |-> DigitsValue(str, 0)]
    ELSE [ok |-> FALSE, n |-> 0]

\* now.Unix() and time.Unix(sec, 0).
Unix(t) == t \div TicksPerSecond
TimeUnix(sec) == sec * TicksPerSecond

\* base64.RawURLEncoding: the encoded text is in another alphabet than the
\* text; a token with a character outside of it does not decode.
Base64Encode(str) == [i \in DOMAIN str |-> <<"b64", str[i]>>]
Base64Decode(token) ==
    IF \A i \in DOMAIN token : token[i][1] = "b64"
    THEN [ok |-> TRUE, raw |-> [i \in DOMAIN token |-> token[i][2]]]
    ELSE [ok |-> FALSE, raw |-> <<>>]

MacChar(ch) ==
    CASE ch = "|" -> "7c" [] ch = "," -> "2c" [] ch = "@" -> "40"
      [] ch = Quote -> "22" [] ch = " " -> "20" [] ch = "a" -> "61"
      [] ch = "b" -> "62" [] ch = "c" -> "63" [] ch = "x" -> "78"
      [] ch \in Range(Digits) -> Digits[DigitValue(ch) + 1]
      [] OTHER -> "3f"
signNoKey(secret, payload) == <<"k">> \o [i \in DOMAIN payload |-> MacChar(payload[i])]
sign(secret, payload) ==
    <<secret>> \o [i \in DOMAIN payload |-> MacChar(payload[i])]
verify(secret, payload, signature) == sign(secret, payload) = signature

\* Manager.IssueEmails.
IssueEmails(secret, emails, now) ==
    LET normalized == normalizeEmailList(emails)
        payload == Join(normalized.emails, ",") \o <<"|">> \o
                   FormatInt(Unix(now))
    IN IF ~normalized.ok THEN [ok |-> FALSE, token |-> <<>>,
                                err |-> normalized.err]
       ELSE [ok |-> TRUE, err |-> "nil",
             token |-> Base64Encode(payload \o <<"|">> \o sign(secret, payload))]

\* Manager.Parse.
Rejected(err) == [ok |-> FALSE, emails |-> <<>>, err |-> err]
Parse(secret, maxAge, token, now) ==
    LET dec == Base64Decode(token)
        parts == Split(dec.raw, "|")
    IN IF token = <<>> THEN Rejected("missing session token")
       ELSE IF ~dec.ok \/ Len(parts) # 3
       THEN Rejected("invalid session token")
       ELSE IF ~verify(secret, parts[1] \o <<"|">> \o parts[2], parts[3])
       THEN Rejected("invalid session token")
       ELSE IF ~ParseInt(parts[2]).ok THEN Rejected("invalid session token")
       ELSE IF now - TimeUnix(ParseInt(parts[2]).n) > maxAge
       THEN Rejected("session expired")
       ELSE normalizeEmailList(Split(parts[1], ","))

\* The secret of the manager that issues, and the one a manager started
\* without AUTH_SECRET generates for itself.
Secret == "k1"
GeneratedSecret == "k2"
MaxAgeTicks == MaxAge * TicksPerSecond

\* Addresses a login may name.
RawEmails == {<<"A", "@", "x">>, <<" ", "a", "@", "x", " ">>,
              <<"b", "@", "x">>, <<"a", "|", "b", "@", "x">>,
              <<Quote, "a", "@", "x", ",", "b", Quote, "@", "x">>,
              <<"a", "b">>, <<" ">>}
EmailLists ==
    UNION {[1..n -> RawEmails] : n \in 0..MaxEmails}
IssueTicks == 0..(2 * TicksPerSecond - 1)
ParseTicks == 0..(MaxAgeTicks + 3 * TicksPerSecond)
AlterChars == {"|", ",", "a", "1"}

NoToken == [st |-> "none", emails |-> <<>>, at |-> 0, issued |-> FALSE,
            token |-> <<>>, how |-> "none", now |-> 0,
            res |-> Rejected("none")]

\* A login: IssueEmails with the clock's reading.
TkIssue ==
    /\ tk.st = "none"
    /\ \E emails \in EmailLists, now \in IssueTicks :
         LET r == IssueEmails(Secret, emails, now)
         IN tk' = [NoToken EXCEPT !.st = "issued", !.emails = emails,
                                  !.at = now, !.issued = r.ok,
                                  !.token = r.token,
                                  !.res = Rejected(r.err)]
    /\ UNCHANGED <<storeVars, pageVars, hubVars, smtpVars, listVars,
                   deliverVars>>

\* The cookie comes back as it was issued.
TkParse ==
    /\ tk.st = "issued"
    /\ tk.issued
    /\ \E now \in ParseTicks :
         tk' = [tk EXCEPT !.st = "parsed", !.how = "as issued", !.now = now,
                          !.res = Parse(Secret, MaxAgeTicks, tk.token, now)]
    /\ UNCHANGED <<storeVars, pageVars, hubVars, smtpVars, listVars,
                   deliverVars>>

\* The cookie comes back with one character of its text replaced.
TkParseAltered ==
    /\ tk.st = "issued"
    /\ tk.issued
    /\ \E i \in DOMAIN tk.token, ch \in AlterChars :
         /\ tk.token[i][2] # ch
         /\ LET altered == [tk.token EXCEPT ![i] = <<"b64", ch>>]
            IN tk' = [tk EXCEPT !.st = "parsed", !.how = "altered",
                                !.now = tk.at, !.token = altered,
                                !.res = Parse(Secret, MaxAgeTicks, altered,
                                              tk.at)]
    /\ UNCHANGED <<storeVars, pageVars, hubVars, smtpVars, listVars,
                   deliverVars>>

\* The cookie comes back to a manager that generated its own secret.
TkParseRestarted ==
    /\ tk.st = "issued"
    /\ tk.issued
    /\ tk' = [tk EXCEPT !.st = "parsed", !.how = "other secret",
                        !.now = tk.at,
                        !.res = Parse(GeneratedSecret, MaxAgeTicks, tk.token,
                                      tk.at)]
    /\ UNCHANGED <<storeVars, pageVars, hubVars, smtpVars, listVars,
                   deliverVars>>

\* The cookie is empty or is not base64 text.
TkParseGarbage ==
    /\ tk.st = "none"
    /\ \E token \in {<<>>, <<<<"b64", "a">>, <<"raw", "|">>>>} :
         tk' = [NoToken EXCEPT !.st = "parsed", !.how = "garbage",
                               !.token = token,
                               !.res = Parse(Secret, MaxAgeTicks, token, 0)]
    /\ UNCHANGED <<storeVars, pageVars, hubVars, smtpVars, listVars,
                   deliverVars>>

TkForget ==
    /\ tk.st \in {"parsed", "issued"}
    /\ tk.st = "issued" => ~tk.issued
    /\ tk' = NoToken
    /\ UNCHANGED <<storeVars, pageVars, hubVars, smtpVars, listVars,
                   deliverVars>>

(***************************************************************************)
(* Listing a mailbox with a search term.                                   *)
(***************************************************************************)
ListViewers == {aX, bX}
Boxes == {"inbox", "sent"}
ListCands ==
    {[from |-> aX, subject |-> <<"a", "_", "b">>,
      rcpts |-> <<Rcpt(bX, "to")>>, atts |-> <<>>],
     [from |-> bX, subject |-> <<"A", "x", "B">>,
      rcpts |-> <<Rcpt(cX, "cc"), Rcpt(aX, "bcc")>>, atts |-> <<Att1>>],
     [from |-> cX, subject |-> <<"s">>, rcpts |-> <<Rcpt(bX, "bcc")>>,
      atts |-> <<>>],
     [from |-> cX, subject |-> <<>>,
      rcpts |-> <<Rcpt(cX, "to"), Rcpt(aX, "to")>>, atts |-> <<>>]}
ListIds == 1..MaxListed
ListTimes == {1, 2}
Sorts == {"newest", "oldest", "asc"}
Terms == {<<>>, <<"a">>, <<"X", "b">>, <<"_">>, <<"a", "%", "b">>, <<" ">>,
          <<"a", " ">>, <<"z">>}

NoList == [called |-> FALSE, viewer |-> <<>>, box |-> "inbox",
           search |-> <<>>, sort |-> "newest", ids |-> {}, items |-> <<>>,
           count |-> 0]

\* A message arrives: InsertMessage as a whole.  Its id is a fresh random
\* one, its time the time of arrival (time.Now never goes back).
LsInsert ==
    /\ ~ls.called
    /\ Cardinality(db.messages) < MaxListed
    /\ \E c \in ListCands, id \in ListIds, at \in ListTimes :
         /\ ~HasId(db, id)
         /\ \A m \in db.messages : m.createdAt <= at
         /\ db' = InsertAll(db, [CandMsg(id, c.from, at) EXCEPT
                                    !.subject = c.subject], c.rcpts, c.atts)
    /\ UNCHANGED <<txSnap, conn, ins, lastWr, rd, committed, ls>>
    /\ UNCHANGED <<pageVars, hubVars, smtpVars, tokenVars, deliverVars>>

\* ListMessages of a box, first page, default page size: the rows of the list
\* query, each then given its recipient groups.
LsList ==
    /\ ~ls.called
    /\ \E viewer \in ListViewers, box \in Boxes, search \in Terms,
          sort \in Sorts :
         \E res \in {ListMessages(db, viewer, box, search, sort, 0, 0)} :
              \E ord \in [{res.items[j].id : j \in DOMAIN res.items} ->
                              UNION {RowOrders(db, res.items[j].id) :
                                        j \in DOMAIN res.items}] :
                /\ \A j \in DOMAIN res.items :
                      ord[res.items[j].id] \in RowOrders(db, res.items[j].id)
                /\ ls' = [called |-> TRUE, viewer |-> viewer, box |-> box,
                          search |-> search, sort |-> sort,
                          ids |-> DOMAIN ord,
                          items |-> [j \in DOMAIN res.items |->
                              [item |-> res.items[j],
                               groups |-> RecipientGroups(
                                              ord[res.items[j].id])]],
                          count |-> res.count]
    /\ UNCHANGED <<storeVars, pageVars, hubVars, smtpVars, tokenVars,
                   deliverVars>>

\* The caller has the list.
LsReturn ==
    /\ ls.called
    /\ ls' = NoList
    /\ UNCHANGED <<storeVars, pageVars, hubVars, smtpVars, tokenVars,
                   deliverVars>>

(***************************************************************************)
(* Data followed from the insert to the broadcast, with subscribers that   *)
(* come at any time and leave their events in the channel.                 *)
(***************************************************************************)
NoDelivery ==
    [pc |-> "idle",
     message |-> [id |-> 0, from |-> <<>>, subject |-> <<>>, text |-> <<>>,
                  html |-> <<>>, raw |-> <<>>, rawSize |-> 0, createdAt |-> 0],
     rcpts |-> <<>>, entry |-> Ingest("nil")]

\* A message without address headers and one with a Bcc header.
DeliverDocs == {DocPlain, DocOdd}


\* Data returns the error of InsertMessage instead of going on.
InsertNeverFails(err) == FALSE
InsertFailed(err) == err # "nil"

DlMail == dl.pc = "idle" /\ MailStep(MaxDeliveries)

DlRcptTo == dl.pc = "idle" /\ RcptStep(MaxDeliveries, MaxConnRcpts)

\* Data up to the return of InsertMessage.
DlStore ==
    /\ ServingUpTo(MaxDeliveries)
    /\ dl.pc = "idle"
    /\ sess.fromReceived
    /\ Len(sess.rcpts) > 0
    /\ conn = "free"
    /\ \/ /\ ingested' = Append(ingested, Ingest("read"))
          /\ sess' = LibraryReset(ResetCall(sess))
          /\ UNCHANGED <<db, dl>>
       \/ \E doc \in DeliverDocs, err \in {"nil", "store"} :
            LET id == Cardinality(db.messages) + 1
                p == parseMessage(sess.from, sess.to, doc, id,
                                  Len(ingested) + 1)
            IN \E rs \in flattenRecipients(p.recipients) :
                 /\ db' = IF err = "nil"
                          THEN InsertAll(db, p.message, rs, p.attachments)
                          ELSE db
                 /\ IF InsertFailed(err)
                    THEN /\ ingested' = Append(ingested, Ingest(err))
                         /\ sess' = LibraryReset(ResetCall(sess))
                         /\ UNCHANGED dl
                    ELSE /\ dl' = [pc |-> "stored", message |-> p.message,
                                   rcpts |-> rs,
                                   entry |-> [Ingest(err) EXCEPT
                                       !.id = id, !.from = sess.from,
                                       !.to = sess.to, !.doc = doc,
                                       !.parseErr = p.err,
                                       !.stored = db' # db]]
                         /\ UNCHANGED <<ingested, sess>>
    /\ UNCHANGED <<authEnabled, txSnap, conn, ins, lastWr, rd, committed,
                   hubVars, pageVars, tokenVars, listVars, snd, restVars>>

\* Data from the Broadcast call to its return and the library's Reset.
DlBroadcast ==
    /\ dl.pc = "stored"
    /\ mu = {}
    /\ chans' = BroadcastAll(chans, subs,
                             messageAudience(dl.message, dl.rcpts),
                             buildEvent(dl.message, dl.rcpts))
    /\ ingested' = Append(ingested,
                          [dl.entry EXCEPT !.announced = chans' # chans])
    /\ sess' = LibraryReset(ResetCall(sess))
    /\ dl' = NoDelivery
    /\ UNCHANGED <<authEnabled, storeVars, subs, mu, bc, pageVars, tokenVars,
                   listVars, snd, restVars>>

(***************************************************************************)
(* The send request of the web API: the handler builds a message and hands *)
(* it to smtp.SendMail, which opens a connection to the SMTP server of the *)
(* same process and runs MAIL, RCPT and DATA on it, without AUTH since the *)
(* handler passes no credentials.                                          *)
(***************************************************************************)
NoSend == [called |-> FALSE, viewer |-> <<>>, to |-> <<>>, text |-> <<>>,
           html |-> <<>>, status |-> 0, err |-> "nil", id |-> 0, n |-> 0]

\* The address of the session cookie and what the request body may hold.
SendViewers == {aX, bX}
SendTos == {<<>>, <<<<" ">>>>, <<<<"B">>>>, <<<<"B">>, <<"b", " ">>>>,
            <<<<"c">>, <<"A">>>>}
SendTexts == {<<>>, <<" ">>, <<"h", "i">>}
SendHtmls == {<<>>, <<"<", "p", ">">>}
SendSubject == <<"s", " ">>

\* normalizeRecipients: trimmed, lower case, no blank, each once.
RECURSIVE normalizeRecipientsFrom(_, _)
normalizeRecipientsFrom(recipients, result) ==
    IF recipients = <<>> THEN result
    ELSE LET trimmed == ToLower(TrimSpace(Head(recipients)))
         IN normalizeRecipientsFrom(Tail(recipients),
                IF trimmed = <<>> \/ trimmed \in Range(result) THEN result
                ELSE Append(result, trimmed))
normalizeRecipients(recipients) == normalizeRecipientsFrom(recipients, <<>>)

\* sanitizeHeader: no carriage return, no line feed, trimmed.
sanitizeHeader(value) ==
    TrimSpace(SelectSeq(value, LAMBDA ch : ch \notin {"\r", "\n"}))

Charset == <<"; charset=utf-8">>

\* buildOutboundMessage, as the mail reader of the server will see it: the
\* From, To and Subject headers and one part, or the two parts of a
\* multipart/alternative body.
buildOutboundMessage(from, to, subject, textBody, htmlBody) ==
    [NoDoc EXCEPT !.raw = textBody \o htmlBody,
                  !.from = <<sanitizeHeader(from)>>,
                  !.to = [i \in DOMAIN to |-> sanitizeHeader(to[i])],
                  !.subject = sanitizeHeader(subject),
                  !.parts = IF textBody # <<>> /\ htmlBody # <<>>
                            THEN <<Inline(TextPlain \o Charset, textBody),
                                   Inline(TextHtml \o Charset, htmlBody)>>
                            ELSE IF textBody # <<>>
                            THEN <<Inline(TextPlain \o Charset, textBody)>>
                            ELSE <<Inline(TextHtml \o Charset, htmlBody)>>]

\* The RCPT commands of SendMail, up to the first the server refuses.
RECURSIVE RcptAll(_, _, _)
RcptAll(enabled, r, to) ==
    IF to = <<>> \/ r.err # "nil" THEN r
    ELSE RcptAll(enabled, RcptCall(enabled, r.sess, Head(to)), Tail(to))

\* smtp.SendMail with no credentials, up to the DATA command: a new session
\* of the server, MAIL, then one RCPT for each recipient.
SendMail(enabled, from, to) ==
    LET m == MailCall(enabled, NewSession, from)
    IN IF m.err # "nil" THEN m ELSE RcptAll(enabled, m, to)

\* POST /api/send, from the decoded request to the status code.
Send ==
    /\ ~snd.called
    /\ snd.n < MaxSends
    /\ conn = "free"
    /\ mu = {}
    /\ \E viewer \in SendViewers, to \in SendTos, text \in SendTexts,
          html \in SendHtmls, failed \in {"nil", "store"} :
         LET recipients == normalizeRecipients(to)
             textBody == TrimSpace(text)
             htmlBody == TrimSpace(html)
             req == [NoSend EXCEPT !.called = TRUE, !.viewer = viewer,
                                   !.to = to, !.text = text, !.html = html,
                                   !.n = snd.n + 1]
             c == SendMail(authEnabled, viewer, recipients)
             id == Cardinality(db.messages) + 1
             p == parseMessage(c.sess.from, c.sess.to,
                      buildOutboundMessage(viewer, recipients, SendSubject,
                                           textBody, htmlBody),
                      id, snd.n + 1)
         IN IF recipients = <<>> \/ (textBody = <<>> /\ htmlBody = <<>>)
            THEN /\ failed = "nil"
                 /\ snd' = [req EXCEPT !.status = 400]
                 /\ UNCHANGED <<db, chans>>
            ELSE IF c.err # "nil"
            THEN /\ failed = "nil"
                 /\ snd' = [req EXCEPT !.status = 400, !.err = c.err]
                 /\ UNCHANGED <<db, chans>>
            ELSE IF failed # "nil"
            THEN /\ snd' = [req EXCEPT !.status = 400, !.err = failed]
                 /\ UNCHANGED <<db, chans>>
            ELSE \E rs \in flattenRecipients(p.recipients) :
                   /\ db' = InsertAll(db, p.message, rs, p.attachments)
                   /\ chans' = BroadcastAll(chans, subs,
                                            messageAudience(p.message, rs),
                                            buildEvent(p.message, rs))
                   /\ snd' = [req EXCEPT !.status = 204, !.id = id]
    /\ UNCHANGED <<authEnabled, txSnap, conn, ins, lastWr, rd, committed,
                   subs, mu, bc, sess, ingested, pageVars, tokenVars,
                   listVars, dl, restVars>>

\* The client has its answer.
SendReturn ==
    /\ snd.called
    /\ snd' = [NoSend EXCEPT !.n = snd.n]
    /\ UNCHANGED <<storeVars, pageVars, hubVars, smtpVars, tokenVars,
                   listVars, dl, restVars>>

(***************************************************************************)
(* The NextPart loop of parseMessage on its own: a sequence of parts goes  *)
(* in, the two bodies and the attachments come out.                        *)
(***************************************************************************)
NoBodies == [text |-> <<>>, html |-> <<>>, atts |-> <<>>]
NoParts == [called |-> FALSE, parts |-> <<>>, res |-> NoBodies]

\* Text parts, empty or not, with and without a media type, HTML parts and
\* an attachment with a text media type.
PartKinds == {Inline(TextPlain, <<>>), Inline(TextPlain, <<"a">>),
              Inline(<<>>, <<"z">>), Inline(TextHtml, <<>>),
              Inline(TextHtml, <<"h">>),
              AttachmentPart(<<"f">>, TextPlain, <<"q">>)}

PartsRead ==
    /\ ~pp.called
    /\ \E n \in 0..MaxParts :
         \E parts \in [1..n -> PartKinds] :
             pp' = [called |-> TRUE, parts |-> parts,
                    res |-> ReadParts(NoBodies, parts)]
    /\ UNCHANGED <<storeVars, pageVars, hubVars, smtpVars, tokenVars,
                   listVars, dl, snd, au, un, strm, ss>>

PartsForget ==
    /\ pp.called
    /\ pp' = NoParts
    /\ UNCHANGED <<storeVars, pageVars, hubVars, smtpVars, tokenVars,
                   listVars, dl, snd, au, un, strm, ss>>

(***************************************************************************)
(* The function Subscribe returns, called a second time for the same      *)
(* channel, after the first call has returned or while it is between its   *)
(* unlock and its close.  close on a closed channel is a run-time panic.   *)
(***************************************************************************)
ClosedPanic == "close of closed channel"
NoUnsub == [pc |-> "idle", ch |-> 0, before |-> <<>>, after |-> <<>>,
            failure |-> "none"]

\* The second call under the write lock: the lookup and the two deletes.
UnsubscribeAgain(ch) ==
    /\ un.pc = "idle"
    /\ chans[ch].st \in {"removed", "closed"}
    /\ WriteLockFree(mu)
    /\ subs' = RemoveSubscriber(subs, chans[ch].email, ch)
    /\ un' = [pc |-> "unlocked", ch |-> ch, before |-> subs, after |-> subs',
              failure |-> "none"]
    /\ UNCHANGED <<chans, mu, bc, storeVars, pageVars, smtpVars, tokenVars,
                   listVars, dl, snd, pp, au, strm, ss>>

\* The second call after its unlock: close(ch).
CloseAgain ==
    /\ un.pc = "unlocked"
    /\ IF chans[un.ch].closed
       THEN /\ un' = [un EXCEPT !.pc = "done", !.failure = ClosedPanic]
            /\ UNCHANGED chans
       ELSE /\ un' = [un EXCEPT !.pc = "done"]
            /\ chans' = [chans EXCEPT ![un.ch].closed = TRUE]
    /\ UNCHANGED <<subs, mu, bc, storeVars, pageVars, smtpVars, tokenVars,
                   listVars, dl, snd, pp, au, strm, ss>>

\* The close of the first call when the second call was faster.
CloseClosed(ch) ==
    /\ chans[ch].st = "removed"
    /\ chans[ch].closed
    /\ chans' = [chans EXCEPT ![ch].st = "closed"]
    /\ un' = [un EXCEPT !.failure = ClosedPanic]
    /\ UNCHANGED <<subs, mu, bc, storeVars, pageVars, smtpVars, tokenVars,
                   listVars, dl, snd, pp, au, strm, ss>>

(***************************************************************************)
(* The stream handler of the web API: it subscribes, then loops over a     *)
(* select on the request context, the channel and a ticker, and on its way *)
(* out runs the function Subscribe gave it.                                *)
(***************************************************************************)
NoStream == [pc |-> "idle", ch |-> 0, cancelled |-> FALSE, sent |-> 0,
             written |-> {}, pinged |-> FALSE]
StreamViewer == aX

\* case <-r.Context().Done() is ready.
CtxDoneNever(st) == FALSE
CtxDone(st) == st.cancelled

\* hub.Subscribe and the "ready" event.
StOpen ==
    /\ strm.pc = "idle"
    /\ WriteLockFree(mu)
    /\ LET ch == Len(chans) + 1
       IN /\ chans' = Append(chans, [email |-> StreamViewer, buf |-> <<>>,
                                     closed |-> FALSE, st |-> "live",
                                     since |-> Len(ingested)])
          /\ subs' = [e \in DOMAIN subs \cup {StreamViewer} |->
                        Subscribers(subs, e) \cup
                            (IF e = StreamViewer THEN {ch} ELSE {})]
          /\ strm' = [NoStream EXCEPT !.pc = "loop", !.ch = ch]
    /\ UNCHANGED <<mu, bc, storeVars, pageVars, smtpVars, tokenVars,
                   listVars, dl, snd, pp, au, un, ss>>

\* The viewer goes away: the request context is cancelled.
StCancel ==
    /\ strm.pc = "loop"
    /\ ~strm.cancelled
    /\ strm' = [strm EXCEPT !.cancelled = TRUE]
    /\ UNCHANGED <<hubVars, storeVars, pageVars, smtpVars, tokenVars,
                   listVars, dl, snd, pp, au, un, ss>>

\* A message for the viewer arrives: Broadcast with the next payload.
StPublish ==
    /\ strm.pc # "idle"
    /\ strm.sent < MaxStreamed
    /\ chans' = BroadcastAll(chans, subs, <<StreamViewer>>, strm.sent + 1)
    /\ strm' = [strm EXCEPT !.sent = @ + 1]
    /\ UNCHANGED <<subs, mu, bc, storeVars, pageVars, smtpVars, tokenVars,
                   listVars, dl, snd, pp, au, un, ss>>

\* case payload, ok := <-ch: the payload is written and flushed; a closed
\* and empty channel ends the handler.
StWrite ==
    /\ strm.pc = "loop"
    /\ chans[strm.ch].buf # <<>> \/ chans[strm.ch].closed
    /\ IF chans[strm.ch].buf = <<>>
       THEN /\ strm' = [strm EXCEPT !.pc = "deferred"]
            /\ UNCHANGED chans
       ELSE /\ strm' = [strm EXCEPT
                           !.written = @ \cup {Head(chans[strm.ch].buf)}]
            /\ chans' = [chans EXCEPT ![strm.ch].buf = Tail(@)]
    /\ UNCHANGED <<subs, mu, bc, storeVars, pageVars, smtpVars, tokenVars,
                   listVars, dl, snd, pp, au, un, ss>>

\* case <-ticker.C: the keep-alive comment is written and flushed.
StPing ==
    /\ strm.pc = "loop"
    /\ strm' = [strm EXCEPT !.pinged = TRUE]
    /\ UNCHANGED <<hubVars, storeVars, pageVars, smtpVars, tokenVars,
                   listVars, dl, snd, pp, au, un, ss>>

\* case <-r.Context().Done(): return.
StReturn ==
    /\ strm.pc = "loop"
    /\ CtxDone(strm)
    /\ strm' = [strm EXCEPT !.pc = "deferred"]
    /\ UNCHANGED <<hubVars, storeVars, pageVars, smtpVars, tokenVars,
                   listVars, dl, snd, pp, au, un, ss>>

\* The deferred unsubscribe, under the write lock.
StUnsubscribe ==
    /\ strm.pc = "deferred"
    /\ WriteLockFree(mu)
    /\ subs' = RemoveSubscriber(subs, StreamViewer, strm.ch)
    /\ chans' = [chans EXCEPT ![strm.ch].st = "removed"]
    /\ strm' = [strm EXCEPT !.pc = "unlocked"]
    /\ UNCHANGED <<mu, bc, storeVars, pageVars, smtpVars, tokenVars,
                   listVars, dl, snd, pp, au, un, ss>>

\* The deferred unsubscribe, after the unlock: close(ch); the handler is
\* back.
StClose ==
    /\ strm.pc = "unlocked"
    /\ chans' = [chans EXCEPT ![strm.ch].st = "closed",
                              ![strm.ch].closed = TRUE]
    /\ strm' = [strm EXCEPT !.pc = "done"]
    /\ UNCHANGED <<subs, mu, bc, storeVars, pageVars, smtpVars, tokenVars,
                   listVars, dl, snd, pp, au, un, ss>>

(***************************************************************************)
(* The initial state: an empty database, no subscriber, no session open.   *)
(***************************************************************************)
InitBase ==
    /\ db = EmptyDb
    /\ txSnap = EmptyDb
    /\ conn = "free"
    /\ ins = [w \in Writers |-> IdleIns]
    /\ lastWr = NoIns
    /\ rd = IdleRd
    /\ committed = <<>>
    /\ trav = IdleTrav
    /\ hn = NoRequest
    /\ subs = <<>>
    /\ chans = <<>>
    /\ mu = {}
    /\ bc = [p \in Broadcasters |-> IdleBc]
    /\ sess = NewSession
    /\ ingested = <<>>
    /\ tk = NoToken
    /\ ls = NoList
    /\ dl = NoDelivery
    /\ snd = NoSend
    /\ pp = NoParts
    /\ au = NoAuth
    /\ un = NoUnsub
    /\ strm = NoStream
    /\ ss = NoSessions

\* SMTP_AUTH_ENABLED is true unless the environment says otherwise.
Init == InitBase /\ authEnabled = TRUE

InitSmtp == InitBase /\ authEnabled \in BOOLEAN

NextStore ==
    \/ \E w \in Writers : InsBegin(w)
    \/ \E w \in Writers : InsMsg(w)
    \/ \E w \in Writers : InsRcpt(w)
    \/ \E w \in Writers : InsAtt(w)
    \/ \E w \in Writers : InsCommit(w)
    \/ RdGetMessage
    \/ RdRecipients
    \/ RdAttachments
    \/ RdGetAttachment
    \/ RdReturn
    \/ WrReturn
    \/ DeleteMessage

SpecStore == Init /\ [][NextStore]_vars

\* Two goroutines calling InsertMessage.  A statement of a transaction that
\* began is executed in the end; a call waiting for the connection is handed
\* it in the end, the pool serving one of the waiting requests whenever the
\* connection is released.
NextInsert ==
    \/ \E w \in Writers : InsCall(w)
    \/ \E w \in Writers : InsBeginTx(w)
    \/ \E w \in Writers : InsMsg(w)
    \/ \E w \in Writers : InsRcpt(w)
    \/ \E w \in Writers : InsAtt(w)
    \/ \E w \in Writers : InsCommit(w)
    \/ WrReturn

SpecInsert ==
    /\ Init /\ [][NextInsert]_vars
    /\ WF_vars(WrReturn)
    /\ \A w \in Writers :
          /\ SF_vars(InsBeginTx(w))
          /\ WF_vars(InsMsg(w)) /\ WF_vars(InsRcpt(w))
          /\ WF_vars(InsAtt(w)) /\ WF_vars(InsCommit(w))

\* The answer to the page request has been sent.
PageAnswered ==
    /\ hn.called
    /\ hn' = NoRequest
    /\ UNCHANGED <<storeVars, trav, hubVars, smtpVars, tokenVars, listVars,
                   deliverVars>>

NextPage ==
    \/ PgInsert
    \/ TravStart
    \/ TravPage
    \/ TravEnd
    \/ PageRequest
    \/ PageAnswered

SpecPage == Init /\ [][NextPage]_vars

NextHub ==
    \/ Subscribe
    \/ \E ch \in DOMAIN chans : Unsubscribe(ch)
    \/ \E ch \in DOMAIN chans : CloseChan(ch)
    \/ \E ch \in DOMAIN chans : Receive(ch)
    \/ \E p \in Broadcasters : BcStart(p)
    \/ \E p \in Broadcasters : BcSend(p)
    \/ \E p \in Broadcasters : BcEnd(p)
    \/ \E p \in Broadcasters : BcReturn(p)

SpecHub == Init /\ [][NextHub]_vars

NextSmtp ==
    \/ Connect
    \/ Auth
    \/ Mail
    \/ RcptTo
    \/ Reset
    \/ Data

SpecSmtp == InitSmtp /\ [][NextSmtp]_vars

NextSessions ==
    \/ \E c \in SsConns : SsAuth(c)
    \/ \E c \in SsConns : SsMail(c)
    \/ \E c \in SsConns : SsRcpt(c)
    \/ \E c \in SsConns : SsReset(c)
    \/ \E c \in SsConns : SsData(c)
    \/ \E c \in SsConns : SsStore(c)

SpecSessions == Init /\ [][NextSessions]_vars

InitConn == InitBase /\ authEnabled = FALSE

NextConn ==
    \/ ConnMail
    \/ ConnRcptTo
    \/ ConnReset
    \/ ConnData

SpecConn == InitConn /\ [][NextConn]_vars

NextParts ==
    \/ PartsRead
    \/ PartsForget

SpecParts == Init /\ [][NextParts]_vars

NextAuth ==
    \/ Connect
    \/ AuthTry
    \/ Mail
    \/ RcptTo
    \/ Reset

SpecAuth == InitSmtp /\ [][NextAuth]_vars

NextUnsub ==
    \/ Subscribe
    \/ \E ch \in DOMAIN chans : Unsubscribe(ch)
    \/ \E ch \in DOMAIN chans : CloseChan(ch)
    \/ \E ch \in DOMAIN chans : UnsubscribeAgain(ch)
    \/ CloseAgain
    \/ \E ch \in DOMAIN chans : CloseClosed(ch)

SpecUnsub == Init /\ [][NextUnsub]_vars

NextStream ==
    \/ StOpen
    \/ StCancel
    \/ StPublish
    \/ StWrite
    \/ StPing
    \/ StReturn
    \/ StUnsubscribe
    \/ StClose

\* select takes one of its ready cases at random, so a case that stays
\* ready is taken in the end; the deferred calls run once the loop is left.
SpecStream ==
    /\ Init /\ [][NextStream]_vars
    /\ WF_vars(StWrite) /\ WF_vars(StReturn)
    /\ WF_vars(StUnsubscribe) /\ WF_vars(StClose)

NextSend ==
    \/ Send
    \/ SendReturn

SpecSend == InitSmtp /\ [][NextSend]_vars

NextDeliver ==
    \/ Subscribe
    \/ DlMail
    \/ DlRcptTo
    \/ DlStore
    \/ DlBroadcast

SpecDeliver == InitConn /\ [][NextDeliver]_vars

NextToken ==
    \/ TkIssue
    \/ TkParse
    \/ TkParseAltered
    \/ TkParseRestarted
    \/ TkParseGarbage
    \/ TkForget

SpecToken == Init /\ [][NextToken]_vars

NextList ==
    \/ LsInsert
    \/ LsList
    \/ LsReturn

SpecList == Init /\ [][NextList]_vars

(***************************************************************************)
(* Claims about the store.                                                 *)
(***************************************************************************)
\* The attachment rows of a message in id order, as InsertMessage was given
\* them.
AttachmentsOf(d, id) ==
    LET rows == SortByAid({a \in d.attachments : a.mid = id})
    IN [i \in DOMAIN rows |->
           [filename |-> rows[i].filename, contentType |-> rows[i].contentType,
            data |-> rows[i].data, size |-> rows[i].size]]

\* Every message of the database has exactly the rows its call was given,
\* and no row is left without its message.
Complete(d) ==
    /\ {m.id : m \in d.messages} = DOMAIN committed
    /\ \A m \in d.messages :
          /\ committed[m.id].msg = m
          /\ getRecipients(d, m.id) = committed[m.id].rcpts
          /\ AttachmentsOf(d, m.id) = committed[m.id].atts
    /\ \A r \in d.recipients : HasId(d, r.mid)
    /\ \A a \in d.attachments : HasId(d, a.mid)

\* C1: InsertMessage is all-or-nothing.  A call that returned an error, at
\* whichever statement or at the commit, left the database as it was before
\* the call; a call that returned nil added the message row and every
\* recipient and attachment row it was given; and whenever the connection is
\* free for a reader, every message in the database has its complete rows.
InsertAllOrNothing ==
    /\ lastWr.result = "err" => lastWr.after = lastWr.before
    /\ lastWr.result = "ok" =>
          lastWr.after = InsertAll(lastWr.before, lastWr.msg, lastWr.rcpts,
                                   lastWr.atts)
    /\ conn = "free" => Complete(db)

\* A call failed at an attachment row, after its message row and its
\* recipient rows were written.
InsertFailedMidway ==
    /\ lastWr.result = "err"
    /\ lastWr.at = "att"
    /\ lastWr.rcpts # <<>>

\* C2: GetMessage and GetAttachment return data exactly to the sender and
\* the recipients of the (parent) message; to anyone else the answer is the
\* not-found answer of an id that does not exist, with nothing else returned.
VisibleIffSenderOrRecipient ==
    rd.op \in {"msg", "att"} /\ rd.pc # "idle" =>
        /\ rd.found <=> (rd.exists /\ rd.entitled)
        /\ rd.found /\ rd.op = "msg" =>
              \E m \in rd.msg : m.id = rd.id /\ rd.msg = {m}
        /\ rd.found /\ rd.op = "att" =>
              \E a \in rd.att : a.aid = rd.id /\ rd.att = {a}
        /\ ~rd.found =>
              rd = [IdleRd EXCEPT !.op = rd.op, !.pc = "done",
                                  !.viewer = rd.viewer, !.id = rd.id,
                                  !.exists = rd.exists]

\* A viewer who is neither sender nor recipient asked for a stored message
\* and got not-found; so did one asking for an attachment of it.
InvisibleLooksAbsent ==
    rd.op = "msg" /\ rd.pc = "done" /\ rd.exists /\ ~rd.found

\* C34 (as claimed, for GetMessage): a message GetMessage returns comes
\* with the recipients and the attachments it was inserted with, also when a
\* DeleteMessage or an InsertMessage runs between the queries of GetMessage.
GetMessageReturnsWholeMessage ==
    rd.op = "msg" /\ rd.pc = "done" /\ rd.found =>
        /\ rd.rcpts = rd.given.rcpts
        /\ Len(rd.atts) = Len(rd.given.atts)
        /\ \A i \in DOMAIN rd.atts :
              /\ rd.atts[i].filename = rd.given.atts[i].filename
              /\ rd.atts[i].contentType = rd.given.atts[i].contentType
              /\ rd.atts[i].size = rd.given.atts[i].size

(***************************************************************************)
(* Claims about listing and pagination.                                    *)
(***************************************************************************)
\* The ids of a box in the order asked for.
BoxOrder(d, email, box, sort) ==
    LET sel == {m \in d.messages : InBox(d, m, email, box)}
        ordered == IF sort = "oldest" THEN SortAsc(sel) ELSE SortDesc(sel)
    IN [j \in DOMAIN ordered |-> ordered[j].id]

\* C3: a page-by-page listing of a mailbox that is not modified meanwhile
\* returns every message of the mailbox exactly once, in the sort order,
\* and every page but the last holds a full page.
TraversalIsExactlyTheBox ==
    trav.st = "done" /\ ~trav.modified =>
        /\ trav.seen = BoxOrder(db, PageViewer, trav.box, trav.sort)
        /\ \A i \in DOMAIN trav.seen, j \in DOMAIN trav.seen :
              i # j => trav.seen[i] # trav.seen[j]
        /\ \A i \in 1..(Len(trav.sizes) - 1) : trav.sizes[i] = trav.limit

\* A traversal of pages of two has ended on a second, shorter page, over
\* messages two of which share their creation time.
TraversedTwoPages ==
    /\ trav.st = "done" /\ ~trav.modified
    /\ trav.sizes = <<2, 1>>
    /\ trav.limit = 2
    /\ \E m1 \in db.messages, m2 \in db.messages :
          /\ m1.id # m2.id /\ m1.createdAt = m2.createdAt
          /\ m1.id \in Range(trav.seen) /\ m2.id \in Range(trav.seen)

\* C33 (as claimed): a message that is in the mailbox from the first page
\* request of a listing to the last is returned exactly once by the listing,
\* also when messages arrive in the mailbox between two page requests.
PresentMessageListedOnce ==
    trav.st = "done" =>
        \A id \in trav.start :
            Cardinality({i \in DOMAIN trav.seen : trav.seen[i] = id}) = 1

\* C4 (as claimed): the has-more flag of a page is true exactly when
\* messages of the mailbox remain after the page, for every offset and limit
\* GetHasNext receives.
HasMoreIffMessagesRemain ==
    hn.called =>
        LET off == IF hn.offset < 0 THEN 0 ELSE hn.offset
            remain == off < hn.count /\ hn.count - off > hn.n
        IN hn.hasMore <=> remain

(***************************************************************************)
(* Claims about the hub.                                                   *)
(***************************************************************************)
\* C5: a Broadcast that returned offered the payload to exactly the
\* channels registered, while it ran, under an address of its list, and every
\* one of them with room in its buffer got the payload.
BroadcastReachesItsAudience ==
    \A p \in Broadcasters :
        bc[p].pc = "done" =>
            /\ {l.ch : l \in bc[p].log} =
                   {ch \in DOMAIN chans :
                       /\ chans[ch].st = "live"
                       /\ \E i \in DOMAIN bc[p].emails :
                             bc[p].emails[i] = chans[ch].email}
            /\ \A l \in bc[p].log : ~l.full => l.sent

\* A Broadcast to two addresses returned while a channel of a third party
\* and one of its own audience were registered.
BroadcastPassedOthersBy ==
    \E p \in Broadcasters :
        /\ bc[p].pc = "done"
        /\ bc[p].log # {}
        /\ \E ch \in DOMAIN chans :
              /\ chans[ch].st = "live"
              /\ ch \notin {l.ch : l \in bc[p].log}

\* C6: Broadcast never blocks.  While it loops it can always take its next
\* step; a channel holding 8 payloads is passed by with its buffer as it
\* was, the other channels of the same call still get the payload; and once
\* it returned it no longer holds the read lock.
BroadcastNeverBlocks ==
    \A p \in Broadcasters :
        /\ bc[p].pc = "loop" => ENABLED (BcSend(p) \/ BcEnd(p))
        /\ bc[p].pc = "loop" <=> p \in mu
        /\ \A l \in bc[p].log :
              /\ l.sent <=> ~l.full
              /\ ~l.sent => l.kept

\* A Broadcast returned that found one channel full and delivered to
\* another.
BroadcastDroppedForOne ==
    \E p \in Broadcasters :
        /\ bc[p].pc = "done"
        /\ \E l1 \in bc[p].log, l2 \in bc[p].log :
              l1.full /\ ~l1.sent /\ l2.sent

(***************************************************************************)
(* Claims about the SMTP session and the ingestion path.                   *)
(***************************************************************************)
\* C7: with authentication enabled, a session that has not authenticated
\* gets the auth-required error from Mail and from Rcpt, which leave its
\* sender and recipient list as they were, and no DATA command ever reaches
\* InsertMessage on its behalf.
UnauthenticatedNeverStores ==
    /\ authEnabled /\ ~sess.authenticated =>
          /\ \A from \in MailVals :
                MailCall(authEnabled, sess, from) =
                    [sess |-> sess, err |-> ErrAuthRequired]
          /\ \A to \in RcptVals :
                RcptCall(authEnabled, sess, to) =
                    [sess |-> sess, err |-> ErrAuthRequired]
          /\ sess.from = <<>> /\ sess.to = <<>> /\ ~sess.fromReceived
    /\ \A i \in DOMAIN ingested : authEnabled => ingested[i].authenticated

\* A session that has not authenticated had its MAIL command refused.
MailRefused ==
    /\ authEnabled
    /\ ~sess.authenticated
    /\ sess.lastErr = ErrAuthRequired

\* C8: every message the ingestion path stored has a recipient row.
StoredHasRecipient ==
    \A i \in DOMAIN ingested :
        ingested[i].err = "nil" =>
            /\ HasId(db, ingested[i].id)
            /\ \E r \in db.recipients : r.mid = ingested[i].id

\* A message whose header block does not parse was stored.
StoredWithoutHeaders ==
    \E i \in DOMAIN ingested :
        ingested[i].err = "nil" /\ ingested[i].doc.hdrErr

\* C9: a message whose bytes fail to parse, at the header block or at a
\* later part, is stored all the same, Data returns nil, and every envelope
\* recipient retrieves it with empty text and HTML bodies and without
\* attachments.
MalformedStoredBare ==
    \A i \in DOMAIN ingested :
        ingested[i].parseErr /\ ingested[i].err = "nil" =>
            \A k \in DOMAIN ingested[i].to :
                LET rows == GetMessageRows(db, ingested[i].to[k],
                                           ingested[i].id)
                IN /\ rows # {}
                   /\ \A m \in rows : m.text = <<>> /\ m.html = <<>>
                   /\ getAttachments(db, ingested[i].id) = <<>>

\* C10: a well-formed message comes back as it went in.  Each envelope
\* recipient gets from GetMessage the subject, the text body, the HTML body
\* and the raw bytes of the document, and from GetAttachment the bytes of
\* each attachment with a size that is their length.
WellFormed(doc) ==
    /\ ~doc.hdrErr
    /\ ~doc.partErr
    /\ \A j \in DOMAIN doc.parts : ~doc.parts[j].readErr
BodyOf(doc, mt) ==
    LET is == {j \in DOMAIN doc.parts :
                  doc.parts[j].kind = "inline" /\ doc.parts[j].mediaType = mt}
    IN IF is = {} THEN <<>> ELSE doc.parts[CHOOSE j \in is : TRUE].body
AttachedTo(doc) ==
    SelectSeq(doc.parts, LAMBDA part : part.kind = "attachment")
RoundTrip ==
    \A i \in DOMAIN ingested :
        ingested[i].err = "nil" /\ WellFormed(ingested[i].doc) =>
            \A k \in DOMAIN ingested[i].to :
                LET e == ingested[i]
                    rows == GetMessageRows(db, e.to[k], e.id)
                    listed == getAttachments(db, e.id)
                    sent == AttachedTo(e.doc)
                IN /\ rows # {}
                   /\ \A m \in rows :
                         /\ m.subject = e.doc.subject
                         /\ m.text = BodyOf(e.doc, TextPlain)
                         /\ m.html = BodyOf(e.doc, TextHtml)
                         /\ m.raw = e.doc.raw
                   /\ Len(listed) = Len(sent)
                   /\ \A j \in DOMAIN listed :
                         LET got == GetAttachmentRows(db, e.to[k], listed[j].aid)
                         IN /\ got # {}
                            /\ \A a \in got :
                                  /\ a.data = sent[j].body
                                  /\ a.size = Len(sent[j].body)

\* A message with text, HTML and an attachment was stored.
StoredWithAttachment ==
    \E i \in DOMAIN ingested :
        /\ ingested[i].err = "nil"
        /\ WellFormed(ingested[i].doc)
        /\ AttachedTo(ingested[i].doc) # <<>>
        /\ BodyOf(ingested[i].doc, TextHtml) # <<>>

\* C14: when InsertMessage fails, the client is told of a transient failure
\* (a 4yz reply), no row of the message is stored and nothing is
\* broadcast.
StoreFailureIsTransient ==
    \A i \in DOMAIN ingested :
        ingested[i].err = "store" =>
            /\ ingested[i].reply \in 400..499
            /\ ~ingested[i].stored
            /\ ~ingested[i].announced

\* C15: after Reset and after Data the session holds no envelope sender and
\* no recipients, so a later message of the same connection is stored with
\* the sender and the recipients of its own transaction only.
OwnEnvelopeOnly ==
    /\ ~sess.fromReceived => sess.from = <<>> /\ sess.to = <<>>
    /\ \A i \in DOMAIN ingested :
          ingested[i].err = "nil" =>
              /\ ingested[i].from = normalizeEmail(ingested[i].mail)
              /\ ingested[i].to = [k \in DOMAIN ingested[i].rcpts |->
                                      normalizeEmail(ingested[i].rcpts[k])]
              /\ {r.email : r \in {q \in db.recipients :
                                        q.mid = ingested[i].id}}
                   = {normalizeEmail(ingested[i].rcpts[k]) :
                         k \in DOMAIN ingested[i].rcpts} \ {<<>>}
              /\ \A m \in db.messages :
                    m.id = ingested[i].id =>
                        m.from = IF normalizeEmail(ingested[i].mail) # <<>>
                                 THEN normalizeEmail(ingested[i].mail)
                                 ELSE UnknownFrom

\* Two messages of one connection were stored, with different senders and
\* different recipients.
SecondMessageOfConnection ==
    /\ Len(ingested) >= 2
    /\ ingested[1].err = "nil"
    /\ ingested[2].err = "nil"
    /\ ingested[1].mail # ingested[2].mail
    /\ ingested[1].rcpts # ingested[2].rcpts
    /\ \E m \in db.messages : m.id = ingested[2].id

\* C16: DeleteMessage(viewer, id) returns true exactly when the message
\* exists and the viewer is its sender or one of its recipients; it then
\* removes the message with all its recipient and attachment rows, so that
\* no viewer sees it and none of its attachments can be fetched; when it
\* returns false the store is unchanged.
DeleteIffEntitled ==
    lastWr.result \in {"deleted", "kept"} =>
        LET b == lastWr.before
            a == lastWr.after
            id == lastWr.msg.id
            v == lastWr.msg.viewer
            entitled ==
                \E m \in b.messages :
                    /\ m.id = id
                    /\ \/ m.from = v
                       \/ \E r \in b.recipients : r.mid = id /\ r.email = v
        IN /\ lastWr.result = "deleted" <=> entitled
           /\ lastWr.result = "deleted" =>
                 /\ a.messages = {m \in b.messages : m.id # id}
                 /\ a.recipients = {r \in b.recipients : r.mid # id}
                 /\ a.attachments = {t \in b.attachments : t.mid # id}
                 /\ \A e \in Addrs :
                       /\ GetMessageRows(a, e, id) = {}
                       /\ \A t \in b.attachments :
                             t.mid = id => GetAttachmentRows(a, e, t.aid) = {}
           /\ lastWr.result = "kept" => a = b

\* A message with recipients and attachments was deleted by one of its
\* recipients.
DeletedWithItsRows ==
    /\ lastWr.result = "deleted"
    /\ \E m \in lastWr.before.messages :
          m.id = lastWr.msg.id /\ m.from # lastWr.msg.viewer
    /\ \E r \in lastWr.before.recipients : r.mid = lastWr.msg.id
    /\ \E t \in lastWr.before.attachments : t.mid = lastWr.msg.id

\* C17: unsubscribe removes and closes the channel of its own subscription
\* only: every subscription not yet unsubscribed is registered under its
\* address and open, an unsubscribed one is registered nowhere, and the
\* registry never holds an address without subscribers.
UnsubscribeRemovesOnlyItsOwn ==
    /\ \A e \in DOMAIN subs : subs[e] # {}
    /\ \A e \in DOMAIN subs : \A ch \in subs[e] :
          ch \in DOMAIN chans /\ chans[ch].email = e
    /\ \A ch \in DOMAIN chans :
          /\ chans[ch].st = "live" =>
                /\ ch \in Subscribers(subs, chans[ch].email)
                /\ ~chans[ch].closed
          /\ chans[ch].st # "live" =>
                \A e \in DOMAIN subs : ch \notin subs[e]
          /\ chans[ch].closed => chans[ch].st = "closed"

\* Of two subscriptions of one address, one was unsubscribed and closed and
\* the other is still registered.
OneOfTwoUnsubscribed ==
    \E c1, c2 \in DOMAIN chans :
        /\ c1 # c2
        /\ chans[c1].email = chans[c2].email
        /\ chans[c1].st = "closed" /\ chans[c1].closed
        /\ chans[c2].st = "live"
        /\ c2 \in Subscribers(subs, chans[c2].email)

\* C18: the sender stored with an ingested message is never empty: it is
\* the normalized envelope sender, else the first address of the From
\* header, else unknown@localsmtp.
SenderNeverEmpty ==
    \A i \in DOMAIN ingested :
        ingested[i].err = "nil" =>
            \A m \in db.messages :
                m.id = ingested[i].id =>
                    /\ m.from # <<>>
                    /\ m.from =
                         IF ingested[i].from # <<>> THEN ingested[i].from
                         ELSE IF ingested[i].doc.from # <<>>
                                 /\ ~ingested[i].doc.hdrErr
                         THEN normalizeEmail(ingested[i].doc.from[1])
                         ELSE UnknownFrom

\* The messages ListMessages is to return for a box.
BoxOf(d, viewer, box) ==
    IF box = "sent" THEN {m \in d.messages : m.from = viewer}
    ELSE {m \in d.messages :
             \E r \in d.recipients :
                 r.mid = m.id /\ r.email = viewer
                              /\ r.type \in {"to", "cc", "bcc"}}

\* C19: the sent box lists exactly the messages the viewer sent, the inbox
\* exactly the messages with a recipient row of any kind for the viewer,
\* and a message the viewer neither sent nor received is never listed.
BoxIsSentOrReceived ==
    ls.called =>
        /\ ls.search = <<>> =>
              ls.ids = {m.id : m \in BoxOf(db, ls.viewer, ls.box)}
        /\ ls.ids \subseteq {m.id : m \in BoxOf(db, ls.viewer, ls.box)}
        /\ \A m \in db.messages :
              m.id \in ls.ids =>
                  \/ m.from = ls.viewer
                  \/ \E r \in db.recipients :
                        r.mid = m.id /\ r.email = ls.viewer

\* An inbox was listed that holds a message received as a blind copy, while
\* the store holds a message of other people.
InboxWithBlindCopy ==
    /\ ls.called
    /\ ls.box = "inbox"
    /\ ls.search = <<>>
    /\ \E m \in db.messages :
          /\ m.id \in ls.ids
          /\ \E r \in db.recipients :
                r.mid = m.id /\ r.email = ls.viewer /\ r.type = "bcc"
    /\ \E m \in db.messages :
          /\ m.id \notin ls.ids
          /\ m.from # ls.viewer
          /\ \A r \in db.recipients : r.mid = m.id => r.email # ls.viewer

\* str contains sub, letters compared whatever their case.
Contains(str, sub) ==
    \E i \in 0..(Len(str) - Len(sub)) :
        ToLower(SubSeq(str, i + 1, i + Len(sub))) = ToLower(sub)

\* C20: with a non-empty search term ListMessages returns exactly the
\* messages of the box whose subject, sender or some recipient address
\* contains the term itself, letters compared whatever their case.
SearchIsLiteralSubstring ==
    ls.called /\ ls.search # <<>> =>
        ls.ids = {m.id : m \in {x \in BoxOf(db, ls.viewer, ls.box) :
                     \/ Contains(x.subject, ls.search)
                     \/ Contains(x.from, ls.search)
                     \/ \E r \in db.recipients :
                           r.mid = x.id /\ Contains(r.email, ls.search)}}

\* C21: the list is ordered by creation time and then id, newest first
\* unless the sort is "oldest" or "asc"; no two entries have the same place
\* in that order, so the sequence is the only one the store can return.
ListedInKeyOrder ==
    ls.called =>
        \A i, j \in DOMAIN ls.items :
            i < j =>
                LET x == ls.items[i].item
                    y == ls.items[j].item
                IN IF ls.sort \in {"oldest", "asc"}
                   THEN \/ x.createdAt < y.createdAt
                        \/ x.createdAt = y.createdAt /\ x.id < y.id
                   ELSE \/ y.createdAt < x.createdAt
                        \/ y.createdAt = x.createdAt /\ y.id < x.id

\* A list, newest first, of two messages that arrived in the same second,
\* the one listed first having arrived first.
ListedTwoOfOneSecond ==
    /\ ls.called
    /\ ls.sort = "newest"
    /\ Len(ls.items) >= 2
    /\ ls.items[1].item.createdAt = ls.items[2].item.createdAt
    /\ \E r1, r2 \in db.recipients :
          /\ r1.mid = ls.items[1].item.id
          /\ r2.mid = ls.items[2].item.id
          /\ r1.rid < r2.rid

\* The addresses of a sequence, each with the number of its occurrences.
Occurrences(seq) ==
    [e \in Range(seq) |-> Cardinality({i \in DOMAIN seq : seq[i] = e})]

\* C28: an entry of the list says hasAttachments exactly when the message
\* has an attachment row, and its recipient groups are the addresses of the
\* message's recipient rows grouped by kind; a message without attachments
\* sent to b is one entry of b's inbox, with hasAttachments false.
ListedRowsMatchStore ==
    ls.called =>
        /\ \A j \in DOMAIN ls.items :
              LET it == ls.items[j]
                  rows == {r \in db.recipients : r.mid = it.item.id}
              IN /\ it.item.hasAttachments <=>
                        \E t \in db.attachments : t.mid = it.item.id
                 /\ DOMAIN it.groups = {r.type : r \in rows}
                 /\ \A k \in DOMAIN it.groups :
                       Occurrences(it.groups[k]) =
                           [e \in {r.email : r \in {q \in rows : q.type = k}}
                              |-> Cardinality({q \in rows :
                                      q.type = k /\ q.email = e})]
        /\ (ls.box = "inbox" /\ ls.search = <<>>) =>
              \A m \in db.messages :
                  (/\ \E r \in db.recipients :
                         r.mid = m.id /\ r.email = ls.viewer
                   /\ ~\E t \in db.attachments : t.mid = m.id)
                  => Cardinality({j \in DOMAIN ls.items :
                         /\ ls.items[j].item.id = m.id
                         /\ ~ls.items[j].item.hasAttachments}) = 1

\* An inbox was listed that holds a message with an attachment and a message
\* without, one of them with two recipients of one kind.
ListedWithAndWithoutAttachment ==
    /\ ls.called
    /\ ls.box = "inbox"
    /\ \E i, j \in DOMAIN ls.items :
          /\ ls.items[i].item.hasAttachments
          /\ ~ls.items[j].item.hasAttachments
          /\ \E k \in DOMAIN ls.items[j].groups :
                Len(ls.items[j].groups[k]) = 2

\* C22: a list request whose page value is malformed fails with the
\* invalid-cursor error and returns no items; it is never answered with the
\* first page.
ErrInvalidCursor == "invalid cursor"
MalformedPageIsRejected ==
    (hn.called /\ hn.page.given /\ ~hn.page.ok) =>
        /\ hn.err = ErrInvalidCursor
        /\ hn.n = 0

\* C24: the recipient rows stored for a message never hold the same kind
\* and normalized address twice.
NoRecipientRowTwice ==
    \A r1, r2 \in db.recipients :
        (r1.rid # r2.rid /\ r1.mid = r2.mid /\ r1.type = r2.type) =>
            normalizeEmail(r1.email) # normalizeEmail(r2.email)

\* A message was stored whose To header and envelope name one address in
\* different case, or whose envelope names one address twice.
StoredFromRepeatedAddress ==
    \E i \in DOMAIN ingested :
        /\ ingested[i].err = "nil"
        /\ \/ \E k \in DOMAIN ingested[i].doc.to :
                 \E j \in DOMAIN ingested[i].rcpts :
                     /\ ingested[i].doc.to[k] # ingested[i].to[j]
                     /\ normalizeEmail(ingested[i].doc.to[k])
                            = ingested[i].to[j]
           \/ \E j, k \in DOMAIN ingested[i].to :
                 j # k /\ ingested[i].to[j] = ingested[i].to[k]
        /\ ~ingested[i].doc.hdrErr
        /\ Cardinality({r \in db.recipients : r.mid = ingested[i].id}) >= 1

\* C25: every non-empty envelope recipient of a message is stored as a
\* recipient of kind "to", whatever the headers say, so the message is in
\* the inbox of that address.
EnvelopeRecipientsStoredAsTo ==
    \A i \in DOMAIN ingested :
        ingested[i].err = "nil" =>
            \A k \in DOMAIN ingested[i].rcpts :
                LET e == normalizeEmail(ingested[i].rcpts[k])
                IN e # <<>> =>
                     /\ \E r \in db.recipients :
                           /\ r.mid = ingested[i].id
                           /\ r.type = "to"
                           /\ r.email = e
                     /\ \A m \in db.messages :
                           m.id = ingested[i].id => InBox(db, m, e, "inbox")

\* A message was stored whose headers list an envelope recipient under Cc
\* only: it has a row of each kind.
StoredCcAlsoAsTo ==
    \E i \in DOMAIN ingested :
        /\ ingested[i].err = "nil"
        /\ \E k \in DOMAIN ingested[i].rcpts :
              LET e == normalizeEmail(ingested[i].rcpts[k])
              IN /\ \A j \in DOMAIN ingested[i].doc.to :
                       normalizeEmail(ingested[i].doc.to[j]) # e
                 /\ \E j \in DOMAIN ingested[i].doc.cc :
                       normalizeEmail(ingested[i].doc.cc[j]) = e
                 /\ \E r \in db.recipients :
                       r.mid = ingested[i].id /\ r.type = "cc" /\ r.email = e
                 /\ \E r \in db.recipients :
                       r.mid = ingested[i].id /\ r.type = "to" /\ r.email = e

\* The sender of a stored message and the addresses of its recipient rows.
StoredAudience(d, id) ==
    {m.from : m \in {x \in d.messages : x.id = id}} \cup
    {r.email : r \in {x \in d.recipients : x.mid = id}}

Offered(ch, id) == \E k \in DOMAIN chans[ch].buf : chans[ch].buf[k].id = id

\* C26: the event of a stored message is offered to every channel subscribed
\* before the broadcast under the sender's address or under the address of
\* one of its recipient rows (to, cc or bcc), and to no other channel.
AudienceIsSenderAndRecipients ==
    \A i \in DOMAIN ingested :
        ingested[i].err = "nil" =>
            \A ch \in DOMAIN chans :
                Offered(ch, ingested[i].id) <=>
                    /\ chans[ch].since < i
                    /\ chans[ch].email \in StoredAudience(db, ingested[i].id)

\* A message to b that a neither sent nor receives, while a and b are
\* subscribed: b has the event and a has nothing.
BroadcastPassesOutsider ==
    /\ Len(ingested) = 1
    /\ ingested[1].err = "nil"
    /\ aX \notin StoredAudience(db, ingested[1].id)
    /\ \E ch \in DOMAIN chans :
          chans[ch].email = aX /\ chans[ch].since = 0 /\ chans[ch].buf = <<>>
    /\ \E ch \in DOMAIN chans :
          chans[ch].email = bX /\ Len(chans[ch].buf) = 1

\* C29: every event in a channel names a message that is in the store with
\* the recipient rows the event lists, a Data call that is between its
\* insert and its broadcast has its message stored, and a Data call that
\* failed has stored and announced nothing.
BroadcastOnlyAfterCommit ==
    /\ \A ch \in DOMAIN chans :
          \A k \in DOMAIN chans[ch].buf :
              LET ev == chans[ch].buf[k]
              IN /\ HasId(db, ev.id)
                 /\ \A j \in DOMAIN ev.to :
                       \E r \in db.recipients :
                           r.mid = ev.id /\ r.type = "to" /\ r.email = ev.to[j]
    /\ dl.pc = "stored" => HasId(db, dl.message.id)
    /\ \A i \in DOMAIN ingested :
          ingested[i].err # "nil" =>
              ~ingested[i].stored /\ ~ingested[i].announced

\* A subscriber holds the event of a message that is stored with the
\* recipients the event lists.
EventOfStoredMessage ==
    \E ch \in DOMAIN chans :
        /\ Len(chans[ch].buf) = 1
        /\ HasId(db, chans[ch].buf[1].id)
        /\ chans[ch].buf[1].to # <<>>
        /\ dl.pc = "idle"

\* C23: a send request with at least one recipient and a body that the
\* store does not fail leaves a message in the sender's sent box and in the
\* inbox of every recipient, whether the server asks for authentication or
\* not.
SentMessageReachesItsBoxes ==
    (/\ snd.called
     /\ normalizeRecipients(snd.to) # <<>>
     /\ (TrimSpace(snd.text) # <<>> \/ TrimSpace(snd.html) # <<>>)
     /\ snd.err # "store")
        => \E m \in db.messages :
              /\ m.id = snd.id
              /\ InBox(db, m, snd.viewer, "sent")
              /\ \A e \in Range(normalizeRecipients(snd.to)) :
                    InBox(db, m, e, "inbox")

\* C30: Broadcast never sends on a closed channel: no send it has made was
\* on a closed channel, no channel it is still to send to is closed, and a
\* closed channel is in the registry under no address.
Registered == UNION {subs[e] : e \in DOMAIN subs}
NoSendOnClosedChannel ==
    /\ \A p \in Broadcasters :
          /\ \A l \in bc[p].log : ~l.closed
          /\ bc[p].pc = "loop" =>
                \A ch \in bc[p].todo : ~chans[ch].closed /\ ch \in Registered
    /\ \A ch \in DOMAIN chans : chans[ch].closed => ch \notin Registered

\* A Broadcast is in its loop with a channel still to send to, while another
\* channel of an address of its list has been closed.
BroadcastBesideClosedChannel ==
    \E p \in Broadcasters :
        /\ bc[p].pc = "loop"
        /\ bc[p].todo # {}
        /\ \E ch \in DOMAIN chans :
              chans[ch].closed /\ chans[ch].email \in Range(bc[p].emails)

\* C39: whatever the query string, GetPaginationParams returns a page of at
\* least 1, a limit between 1 and MaxLimit and the offset
\* (Page - 1) * Limit, which is not negative.
PaginationParamsInRange ==
    hn.called =>
        /\ hn.pageNo >= 1
        /\ 1 <= hn.lim /\ hn.lim <= MaxLimit
        /\ hn.offset = (hn.pageNo - 1) * hn.lim
        /\ hn.offset >= 0

\* C38: the text body is the bodies of the text/plain parts and of the
\* parts without media type, in order, with one newline between each two,
\* empty parts included; the HTML body is that of the text/html parts; an
\* attachment adds to neither.
BodiesOf(parts, isKind(_)) ==
    LET inl == SelectSeq(parts, LAMBDA part :
                   part.kind = "inline" /\ isKind(part.mediaType))
    IN [j \in DOMAIN inl |-> inl[j].body]
IsTextType(mt) == HasPrefix(mt, TextPlain) \/ mt = <<>>
IsHtmlType(mt) == HasPrefix(mt, TextHtml)
BodiesJoinedWithNewline ==
    pp.called =>
        /\ pp.res.text = Join(BodiesOf(pp.parts, IsTextType), "\n")
        /\ pp.res.html = Join(BodiesOf(pp.parts, IsHtmlType), "\n")

\* C35: an AUTH command succeeds exactly when authentication is enabled,
\* the mechanism is PLAIN and the username and the password are the
\* configured ones; a failed one leaves the flag as it was; the flag is set
\* by no other step, and a set flag stays set until the session ends,
\* Reset included.
AuthOutcome ==
    au.tried =>
        /\ au.err = "nil" <=> /\ authEnabled
                              /\ au.mech = SaslPlain
                              /\ au.username = AuthUsername
                              /\ au.password = AuthPassword
        /\ au.err = "nil" => au.after
        /\ au.err # "nil" => au.after = au.before
AuthFlagStep ==
    /\ (~sess.authenticated /\ sess'.authenticated) =>
           au'.tried /\ au'.err = "nil" /\ ~au'.before /\ au'.after
    /\ (sess.authenticated /\ sess' # NewSession) => sess'.authenticated
AuthenticatedOnlyByPlainCredentials ==
    []AuthOutcome /\ [][AuthFlagStep]_vars

\* An authenticated session has given wrong credentials in a later AUTH
\* command and is still authenticated.
StillAuthenticatedAfterFailure ==
    /\ sess.authenticated
    /\ au.tried
    /\ au.before
    /\ au.err = "invalid credentials"

\* C37: a channel is offered the event of a message at most once, however
\* often its address occurs in the audience.
EventsOf(ch, id) == {k \in DOMAIN chans[ch].buf : chans[ch].buf[k].id = id}
OfferedAtMostOnce ==
    \A ch \in DOMAIN chans :
        \A k \in DOMAIN chans[ch].buf :
            Cardinality(EventsOf(ch, chans[ch].buf[k].id)) = 1

\* a sent a message that names a under Bcc as well: the audience holds a
\* twice, and the channel of a holds the event once.
SenderAlsoRecipientOfferedOnce ==
    \E i \in DOMAIN ingested :
        /\ ingested[i].err = "nil"
        /\ normalizeEmail(ingested[i].mail) = aX
        /\ \E r \in db.recipients :
              r.mid = ingested[i].id /\ r.email = aX /\ r.type = "bcc"
        /\ \E ch \in DOMAIN chans :
              /\ chans[ch].email = aX
              /\ Cardinality(EventsOf(ch, ingested[i].id)) = 1

\* C40: a second call of an unsubscribe function leaves the registry as it
\* was and fails nowhere.
SecondUnsubscribeIsHarmless ==
    /\ un.pc # "idle" => un.after = un.before
    /\ un.failure = "none"

\* C36: once the request context of a stream is cancelled the handler
\* returns in the end, with its channel out of the registry and closed; and
\* every payload in the channel of a connected viewer is written in the
\* end, unless the viewer goes away first.
StreamGone ==
    /\ strm.pc = "done"
    /\ chans[strm.ch].closed
    /\ \A e \in DOMAIN subs : strm.ch \notin subs[e]
StreamEndsWithItsViewer ==
    /\ strm.cancelled ~> StreamGone
    /\ \A n \in 1..MaxStreamed :
          (strm.pc = "loop" /\ n \in Range(chans[strm.ch].buf))
              ~> (n \in strm.written \/ strm.cancelled)

\* The viewer has been pinged and has been written every payload, and has
\* then gone away; the handler is back.
StreamServedThenGone ==
    /\ StreamGone
    /\ strm.pinged
    /\ strm.written = 1..MaxStreamed

\* The rows of message id in database d.
RowsOf(d, id) ==
    [messages |-> {m \in d.messages : m.id = id},
     recipients |-> {Rcpt(r.email, r.type) : r \in {x \in d.recipients : x.mid = id}},
     nRecipients |-> Cardinality({x \in d.recipients : x.mid = id}),
     attachments |-> {[filename |-> a.filename, contentType |-> a.contentType,
                       data |-> a.data, size |-> a.size] :
                         a \in {x \in d.attachments : x.mid = id}},
     nAttachments |-> Cardinality({x \in d.attachments : x.mid = id})]
AllRowsOf(c) ==
    [messages |-> {c.msg}, recipients |-> Range(c.rcpts),
     nRecipients |-> Len(c.rcpts), attachments |-> Range(c.atts),
     nAttachments |-> Len(c.atts)]
NoRowsOf ==
    [messages |-> {}, recipients |-> {}, nRecipients |-> 0,
     attachments |-> {}, nAttachments |-> 0]
InTx(w) == ins[w].pc \in {"msg", "rcpt", "att", "commit"}
\* One transaction at a time, that of the holder of the connection.
OneTransaction ==
    \A w \in Writers : InTx(w) <=> conn = w
\* Every row of a message is one its call was given for it.
RowsWithTheirMessage ==
    \A w \in Writers : ins[w].pc # "idle" =>
        LET have == RowsOf(db, ins[w].msg.id)
            all == AllRowsOf(ins[w])
        IN /\ have.messages \subseteq all.messages
           /\ have.recipients \subseteq all.recipients
           /\ have.attachments \subseteq all.attachments
           /\ have.nRecipients <= all.nRecipients
           /\ have.nAttachments <= all.nAttachments
\* A call that returns leaves all of its rows or none, and leaves the rows
\* of the other message alone.
ReturnsAllOrNone ==
    \A w \in Writers :
        (ins[w].pc # "idle" /\ ins'[w].pc = "idle") =>
            /\ lastWr'.msg = ins[w].msg
            /\ RowsOf(db', ins[w].msg.id) =
                  IF lastWr'.result = "ok" THEN AllRowsOf(ins[w]) ELSE NoRowsOf
            /\ \A id \in DOMAIN committed \ {ins[w].msg.id} :
                  RowsOf(db', id) = AllRowsOf(committed[id])
\* C32: two concurrent InsertMessage calls for different messages take
\* turns on the only connection: at most one transaction is open, every
\* row in the database belongs to the message its call was given it with,
\* a call that returns has stored all of its rows or none of them, and a
\* call that was made returns in the end.
InsertsAreSerialized ==
    /\ [](OneTransaction /\ RowsWithTheirMessage)
    /\ [][ReturnsAllOrNone]_vars
    /\ \A w \in Writers : (ins[w].pc = "wait") ~> (ins[w].pc = "idle")
\* A call waits for the connection while the transaction of the other has
\* inserted its message and recipient rows.
InsertWaitsForTheOther ==
    /\ ins["w1"].pc = "commit" /\ ins["w1"].rcpts # <<>>
    /\ RowsOf(db, ins["w1"].msg.id) = AllRowsOf(ins["w1"])
    /\ ins["w2"].pc = "wait"

\* The envelope recipients a connection gave, as the rows they are stored as.
EnvelopeRows(rcpts) ==
    {Rcpt(normalizeEmail(rcpts[i]), "to") :
        i \in {j \in DOMAIN rcpts : normalizeEmail(rcpts[j]) # <<>>}}
\* A stored message has the sender and the recipients of the commands of
\* the connection that sent it.
StoredWithOwnEnvelope ==
    \A i \in DOMAIN ss.log :
        LET e == ss.log[i]
        IN /\ \E m \in db.messages :
                 m.id = e.id /\ m.from = normalizeEmail(e.mail)
           /\ {Rcpt(r.email, r.type) :
                  r \in {x \in db.recipients : x.mid = e.id}}
                 = EnvelopeRows(e.rcpts)
\* C31: two sessions served side by side share no envelope and no
\* authentication: a stored message (one without address headers) has
\* exactly the sender and the recipients its own connection gave, whatever
\* the other connection did in between, and the session of a connection is
\* authenticated only by an AUTH of that connection.
SessionsShareNothing ==
    /\ StoredWithOwnEnvelope
    /\ \A c \in SsConns :
          ss.sess[SessionOf(c)].authenticated => ss.cn[c].authed
\* Both connections stored a message, with different senders, and the
\* second was stored while the first connection had begun another
\* transaction.
TwoSessionsStored ==
    /\ Len(ss.log) = 2
    /\ ss.log[1].conn # ss.log[2].conn
    /\ ss.log[1].mail # ss.log[2].mail
    /\ ss.cn[ss.log[1].conn].fromReceived

(***************************************************************************)
(* Claims about session tokens.                                            *)
(***************************************************************************)
\* The addresses of a list, normalized, each at its first occurrence.
RECURSIVE FirstOccurrences(_)
FirstOccurrences(list) ==
    IF list = <<>> THEN <<>>
    ELSE LET rest == FirstOccurrences(SubSeq(list, 1, Len(list) - 1))
             last == list[Len(list)]
         IN IF last \in Range(rest) THEN rest ELSE Append(rest, last)
AllValid(emails) ==
    emails # <<>> /\ \A i \in DOMAIN emails : NormalizeEmail(emails[i]).ok
Normalized(emails) ==
    FirstOccurrences([i \in DOMAIN emails |-> NormalizeEmail(emails[i]).email])

\* C27: IssueEmails returns an error and no token for an empty list and for
\* a list with an address that is blank or that the address grammar does
\* not accept; a token it issues carries the normalized addresses of a
\* non-empty list of valid addresses.
BlankOrInvalid(email) ==
    \/ TrimSpace(email) = <<>>
    \/ ~ParseAddress(TrimSpace(ToLower(email))).ok
IssueRefusesBadLists ==
    tk.st = "issued" =>
        /\ (tk.emails = <<>> \/
                \E i \in DOMAIN tk.emails : BlankOrInvalid(tk.emails[i]))
              => /\ ~tk.issued
                 /\ tk.token = <<>>
                 /\ tk.res.err \in {"email is required", "email must be valid"}
        /\ tk.issued =>
              /\ tk.emails # <<>>
              /\ HasPrefix(Base64Decode(tk.token).raw,
                           Join(Normalized(tk.emails), ",") \o <<"|">>)

\* A login with a valid address followed by a blank one was refused.
RefusedForBlankSecondAddress ==
    /\ tk.st = "issued"
    /\ ~tk.issued
    /\ Len(tk.emails) = 2
    /\ ~BlankOrInvalid(tk.emails[1])
    /\ TrimSpace(tk.emails[2]) = <<>>

\* C11: a token issued for a non-empty list of valid addresses and parsed
\* at once is accepted and yields the normalized addresses of the list,
\* each once, in the order of their first occurrence.
IssueThenParseRoundTrip ==
    /\ tk.st = "issued" /\ AllValid(tk.emails) => tk.issued
    /\ tk.st = "parsed" /\ tk.how = "as issued" /\ tk.now = tk.at =>
          /\ tk.res.ok
          /\ tk.res.emails = Normalized(tk.emails)

\* C12: Parse accepts a token only if its third part is the MAC, under the
\* manager's secret, of its first two parts; a token altered after it was
\* issued and a token of a manager with another secret are invalid tokens.
OnlyOwnSignatureAccepted ==
    tk.st = "parsed" =>
        /\ tk.res.ok =>
              LET parts == Split(Base64Decode(tk.token).raw, "|")
              IN /\ Base64Decode(tk.token).ok
                 /\ Len(parts) = 3
                 /\ parts[3] = sign(Secret, parts[1] \o <<"|">> \o parts[2])
        /\ tk.how \in {"altered", "other secret"} =>
              ~tk.res.ok /\ tk.res.err = "invalid session token"

\* A token was parsed that had one character replaced and still had its
\* three parts.
AlteredTokenParsed ==
    /\ tk.st = "parsed"
    /\ tk.how = "altered"
    /\ Len(Split(Base64Decode(tk.token).raw, "|")) = 3
    /\ tk.res.err = "invalid session token"

\* C13: a token issued at time t and parsed as issued fails with the
\* session-expired error exactly if now - t exceeds the max age, and is
\* accepted up to and including the max age.  (Tokens whose addresses hold
\* no delimiter character, which parse when they are fresh.)
Plain(emails) ==
    \A i \in DOMAIN emails :
        "|" \notin Range(emails[i]) /\ "," \notin Range(emails[i])
ExpiresExactlyAfterMaxAge ==
    tk.st = "parsed" /\ tk.how = "as issued" /\ Plain(tk.emails) =>
        /\ tk.res.err = "session expired" <=> tk.now - tk.at > MaxAgeTicks
        /\ tk.now - tk.at <= MaxAgeTicks => tk.res.ok
        /\ tk.res.err = "session expired" => tk.res.emails = <<>>

====
